---- MODULE Spec2Model ----
\* FrontExtract: the extraction pipeline (Engine.parsePackage), the resource
\* monitor, the in-memory file cache and the format detector, as state machines.
EXTENDS Integers, Sequences, FiniteSets, TLC

\* ------------------------------------------------------------------ bounds
\* number of parsePackage invocations that may overlap (one Engine each)
NumRuns == 2
\* how far Date.now() advances beyond the timestamps of the initial cache
MaxClock == 2
\* number of cache operations in one behaviour of the cache specification
MaxOps == 2
\* code files one reorganizeResources call transforms
MaxFiles == 1

\* ------------------------------------------------------------ program data
\* PerformanceOptimizer.maxCacheEntries
maxCacheEntries == 100

\* file paths used as cache keys are numbered; 0 is the empty string ''
EmptyPath == 0
\* the initial value of oldestKey in evictOldestCacheEntry
NullKey == -1

VARIABLES
  fileCache,           \* PerformanceOptimizer.fileCache: entries in Map insertion order
  now,                 \* Date.now()
  op,                  \* the last cache operation: its number, name, arguments and result
  probe,               \* a call of detectFormat / unpack / checkSystemResources and its result
  pc,                  \* where each parsePackage invocation stands
  rs,                  \* the options, locals and history of each invocation
  events,              \* what each invocation has passed to onProgress
  resourceMonitor,     \* ResourceMonitor: monitoring, monitoringInterval
  timers,              \* the interval timers the event loop has scheduled
  tempDirExists        \* whether Engine.tempDir (<tmp>/fan-temp) is on disk

cacheVars == <<fileCache, now, op>>
engineVars == <<pc, rs, events, resourceMonitor, timers, tempDirExists>>
vars == <<fileCache, now, op, probe, pc, rs, events, resourceMonitor, timers, tempDirExists>>

\* ---------------------------------------------------- IEEE-754 arithmetic
\* 2^k for k in 0..30
Pow2Table == <<1, 2, 4, 8, 16, 32, 64, 128, 256, 512, 1024, 2048, 4096, 8192,
               16384, 32768, 65536, 131072, 262144, 524288, 1048576, 2097152,
               4194304, 8388608, 16777216, 33554432, 67108864, 134217728,
               268435456, 536870912, 1073741824>>
Pow2(k) == Pow2Table[k + 1]

\* The 53-bit significand of a double is kept in three limbs of 17, 18 and 18
\* bits (most significant first).
LimbBits == 18
Limb == Pow2(LimbBits)

\* Each stage of the arithmetic below is the one-element set of its results, so
\* that every intermediate value is computed once.
\* the double nearest to pct/100 (round to nearest, ties to even), 0 < pct < 100:
\* hi, mid, lo are the limbs of the significand M and the value is M * 2^-(52 + e)
Div100(pct) ==
  LET scaled == {[e |-> j, r |-> pct * Pow2(j - 1) * Pow2(17)] :
                   j \in {j \in 1..7 : pct * Pow2(j) >= 100 /\ pct * Pow2(j - 1) < 100}}
      limb1 == {[e |-> x.e, d1 |-> x.r \div 100, r |-> (x.r % 100) * Limb] : x \in scaled}
      limb2 == {[e |-> x.e, d1 |-> x.d1, d2 |-> x.r \div 100, r |-> (x.r % 100) * Limb] :
                  x \in limb1}
      limb3 == {[e |-> x.e, d1 |-> x.d1, d2 |-> x.d2, d3 |-> x.r \div 100,
                 guard |-> (2 * (x.r % 100)) \div 100,
                 sticky |-> (2 * (x.r % 100)) % 100 # 0] : x \in limb2}
      rounded == {[e |-> x.e, d1 |-> x.d1, d2 |-> x.d2,
                   s3 |-> x.d3 + (IF x.guard = 1 /\ (x.sticky \/ x.d3 % 2 = 1) THEN 1 ELSE 0)] :
                    x \in limb3}
      carried == {[e |-> x.e, d1 |-> x.d1, s2 |-> x.d2 + x.s3 \div Limb, s3 |-> x.s3] :
                    x \in rounded}
      result == {[hi |-> x.d1 + x.s2 \div Limb, mid |-> x.s2 % Limb, lo |-> x.s3 % Limb,
                  e |-> x.e] : x \in carried}
  IN CHOOSE q \in result : TRUE

\* the number of significant bits of 0 < v < 2^30
BitLen(v) == CHOOSE k \in 1..30 : Pow2(k - 1) <= v /\ v < Pow2(k)

\* Math.ceil(total * (pct / 100)) as JavaScript computes it in doubles,
\* for integers 0 <= total < 2^12 and 0 <= pct <= 100
CeilMul(total, pct) ==
  IF pct = 0 \/ total = 0 THEN 0
  ELSE IF pct = 100 THEN total
  ELSE
    LET \* exact product total * M, limb by limb
        p3 == {[e |-> q.e, hi |-> q.hi, mid |-> q.mid, t3 |-> q.lo * total] : q \in {Div100(pct)}}
        p2 == {[e |-> x.e, hi |-> x.hi, t2 |-> x.mid * total + x.t3 \div Limb,
                l3 |-> x.t3 % Limb] : x \in p3}
        p1 == {[e |-> x.e, t1 |-> x.hi * total + x.t2 \div Limb, l2 |-> x.t2 % Limb,
                l3 |-> x.l3] : x \in p2}
        \* round the product to 53 significant bits: the dropped bits are in l3
        dropped == {[e |-> x.e, t1 |-> x.t1, l2 |-> x.l2, l3 |-> x.l3,
                     drop |-> BitLen(x.t1) - 17] : x \in p1}
        parts == {[e |-> x.e, t1 |-> x.t1, l2 |-> x.l2, drop |-> x.drop,
                   kept |-> x.l3 \div Pow2(x.drop),
                   guard |-> IF x.drop = 0 THEN 0 ELSE (x.l3 \div Pow2(x.drop - 1)) % 2,
                   low |-> x.drop > 1 /\ x.l3 % Pow2(x.drop - 1) # 0] : x \in dropped}
        r3 == {[e |-> x.e, t1 |-> x.t1, l2 |-> x.l2,
                m3 |-> (x.kept + (IF x.guard = 1 /\ (x.low \/ x.kept % 2 = 1) THEN 1 ELSE 0))
                         * Pow2(x.drop)] : x \in parts}
        r2 == {[e |-> x.e, t1 |-> x.t1, m2 |-> x.l2 + x.m3 \div Limb, m3 |-> x.m3] : x \in r3}
        \* the rounded product is (m1, m2 % Limb, m3 % Limb) * 2^-(52 + e)
        r1 == {[shift |-> 52 + x.e - 2 * LimbBits, m1 |-> x.t1 + x.m2 \div Limb,
                rest |-> x.m2 % Limb # 0 \/ x.m3 % Limb # 0] : x \in r2}
        ceil == {x.m1 \div Pow2(x.shift)
                   + (IF x.m1 % Pow2(x.shift) # 0 \/ x.rest THEN 1 ELSE 0) : x \in r1}
    IN CHOOSE c \in ceil : TRUE

\* -------------------------------------------------------------- the cache
\* Map.prototype.set: an existing key keeps its position, a new key is appended
MapSet(cache, k, v) ==
  IF \E i \in DOMAIN cache : cache[i].key = k
  THEN [i \in DOMAIN cache |-> IF cache[i].key = k THEN v ELSE cache[i]]
  ELSE Append(cache, v)

\* Map.prototype.delete
MapDelete(cache, k) == SelectSeq(cache, LAMBDA en : en.key # k)

\* Map.prototype.get, NullKey standing for undefined
MapGet(cache, k) ==
  IF \E i \in DOMAIN cache : cache[i].key = k
  THEN (cache[CHOOSE i \in DOMAIN cache : cache[i].key = k]).content
  ELSE NullKey

\* JavaScript truthiness of a key: null and the empty string are falsy
Truthy(k) == k # NullKey /\ k # EmptyPath

\* the key the scan of evictOldestCacheEntry ends with: the first entry, in
\* iteration order, whose timestamp is strictly below all earlier ones
OldestKey(cache) ==
  IF cache = <<>> THEN NullKey
  ELSE (cache[CHOOSE i \in DOMAIN cache :
                \A j \in DOMAIN cache :
                   \/ cache[i].timestamp < cache[j].timestamp
                   \/ cache[i].timestamp = cache[j].timestamp /\ i <= j]).key

evictOldestCacheEntry(cache) ==
  IF Len(cache) = 0 THEN cache
  ELSE IF Truthy(OldestKey(cache)) THEN MapDelete(cache, OldestKey(cache))
  ELSE cache

\* clearMemoryCache that deletes only the first entry of the Map
clearMemoryCacheDropsFirst(cache) == IF cache = <<>> THEN cache ELSE Tail(cache)

clearMemoryCache(cache) == <<>>

\* cacheFile suspended between its eviction and its Map.set
cacheFileSuspended(cache, filePath, content, high, time) ==
  LET c1 == IF high THEN clearMemoryCache(cache) ELSE cache
  IN IF Len(c1) >= maxCacheEntries THEN evictOldestCacheEntry(c1) ELSE c1

cacheFile(cache, filePath, content, high, time) ==
  LET c1 == IF high THEN clearMemoryCache(cache) ELSE cache
      c2 == IF Len(c1) >= maxCacheEntries THEN evictOldestCacheEntry(c1) ELSE c1
  IN MapSet(c2, filePath, [key |-> filePath, content |-> content, timestamp |-> time])

\* getCachedFile: an empty (falsy) content reads as a miss
getCachedFile(cache, filePath) == MapGet(cache, filePath)

\* position of entry i after the stable sort by timestamp
SortRank(cache, i) ==
  Cardinality({j \in DOMAIN cache :
                 \/ cache[j].timestamp < cache[i].timestamp
                 \/ cache[j].timestamp = cache[i].timestamp /\ j < i})

EntriesToRemove(cache, percentage) == CeilMul(Len(cache), percentage)

smartClearMemoryCache(cache, percentage) ==
  IF Len(cache) = 0 THEN cache
  ELSE LET kept == {SelectSeq(cache, LAMBDA en : en.key \notin gone) :
                      gone \in {{cache[i].key : i \in {j \in DOMAIN cache :
                                                          SortRank(cache, j) < entriesToRemove}} :
                                  entriesToRemove \in {EntriesToRemove(cache, percentage)}}}
       IN CHOOSE c \in kept : TRUE

\* ------------------------------------------------------------ the unpacker
\* a path is a tuple of one-character strings
Upper == <<"A", "B", "C", "D", "E", "F", "G", "H", "I", "J", "K", "L", "M",
           "N", "O", "P", "Q", "R", "S", "T", "U", "V", "W", "X", "Y", "Z">>
Lower == <<"a", "b", "c", "d", "e", "f", "g", "h", "i", "j", "k", "l", "m",
           "n", "o", "p", "q", "r", "s", "t", "u", "v", "w", "x", "y", "z">>

\* String.prototype.toLowerCase
ToLowerChar(ch) ==
  IF \E i \in DOMAIN Upper : Upper[i] = ch
  THEN Lower[CHOOSE i \in DOMAIN Upper : Upper[i] = ch]
  ELSE ch
ToLowerCase(str) == [i \in DOMAIN str |-> ToLowerChar(str[i])]

\* String.prototype.lastIndexOf (0-based, -1 when absent)
LastIndexOf(str, ch) ==
  IF \E i \in DOMAIN str : str[i] = ch
  THEN (CHOOSE i \in DOMAIN str : str[i] = ch /\ \A j \in DOMAIN str : str[j] = ch => j <= i) - 1
  ELSE -1

\* String.prototype.slice(start): a negative start counts from the end
Slice(str, start) ==
  LET from == IF start < 0 THEN (IF Len(str) + start < 0 THEN 0 ELSE Len(str) + start)
              ELSE start
  IN SubSeq(str, from + 1, Len(str))

\* path.extname: from the last dot of the base name, '' when there is none or
\* the base name starts with its only dot
ExtName(str) ==
  LET base == Slice(str, LastIndexOf(str, "/") + 1)
      dot == LastIndexOf(base, ".")
  IN IF dot <= 0 THEN <<>> ELSE Slice(base, dot)

ExtZip == <<".", "z", "i", "p">>
ExtAsar == <<".", "a", "s", "a", "r">>
ExtExe == <<".", "e", "x", "e">>
ExtDmg == <<".", "d", "m", "g">>
ExtDeb == <<".", "d", "e", "b">>
ExtRpm == <<".", "r", "p", "m">>
Ext7z == <<".", "7", "z">>
ExtRar == <<".", "r", "a", "r">>

\* Unpacker.supportedFormats, in property order
supportedFormats ==
  << [format |-> "zip", extensions |-> {ExtZip, ExtAsar}],
     [format |-> "electron", extensions |-> {ExtExe, ExtDmg, ExtDeb, ExtRpm}],
     [format |-> "other", extensions |-> {Ext7z, ExtRar}] >>

\* detectFormat comparing the extension as written, without toLowerCase
detectFormatCaseSensitive(filePath) ==
  LET ext == Slice(filePath, LastIndexOf(filePath, "."))
      hits == {i \in DOMAIN supportedFormats : ext \in supportedFormats[i].extensions}
  IN IF hits = {} THEN "unknown"
     ELSE supportedFormats[CHOOSE i \in hits : \A j \in hits : i <= j].format

detectFormat(filePath) ==
  LET ext == ToLowerCase(Slice(filePath, LastIndexOf(filePath, ".")))
      hits == {i \in DOMAIN supportedFormats : ext \in supportedFormats[i].extensions}
  IN IF hits = {} THEN "unknown"
     ELSE supportedFormats[CHOOSE i \in hits : \A j \in hits : i <= j].format

\* unpack whose switch sends every format other than 'electron' and 'unknown'
\* to the zip extractor
unpackOtherAsZip(filePath) ==
  LET format == detectFormat(filePath)
      ext == ToLowerCase(ExtName(filePath))
  IN CASE format = "electron" ->
            (CASE ext = ExtExe -> "unpackWindowsExe"
               [] ext = ExtDmg -> "unpackDmg"
               [] ext \in {ExtDeb, ExtRpm} -> "unpackLinuxPackage"
               [] OTHER -> "unsupportedElectron")
       [] format = "unknown" -> "unsupported"
       [] OTHER -> IF ext = ExtAsar THEN "unpackAsar" ELSE "unpackZip"

\* the branch unpack takes: which extractor runs, or which error is thrown
\* before anything is read or written
unpack(filePath) ==
  LET format == detectFormat(filePath)
      ext == ToLowerCase(ExtName(filePath))
  IN CASE format = "zip" -> IF ext = ExtAsar THEN "unpackAsar" ELSE "unpackZip"
       [] format = "electron" ->
            (CASE ext = ExtExe -> "unpackWindowsExe"
               [] ext = ExtDmg -> "unpackDmg"
               [] ext \in {ExtDeb, ExtRpm} -> "unpackLinuxPackage"
               [] OTHER -> "unsupportedElectron")
       [] OTHER -> "unsupported"

\* the branches of unpack that throw before any extractor runs
Rejections == {"unsupported", "unsupportedElectron"}

\* ----------------------------------------------------- the resource monitor
\* ResourceMonitor.resourceThresholds
resourceThresholds == [memory |-> 80, cpu |-> 80, disk |-> 90]

\* the alert types, in the order they are pushed
checkResourceThresholds(resourceUsage) ==
  (IF resourceUsage.memory.usage > resourceThresholds.memory THEN <<"memory">> ELSE <<>>)
  \o (IF resourceUsage.cpu.usage > resourceThresholds.cpu THEN <<"cpu">> ELSE <<>>)
  \o (IF resourceUsage.disk.usage > resourceThresholds.disk THEN <<"disk">> ELSE <<>>)

\* checkSystemResources that also refuses when a threshold alert is raised
checkSystemResourcesAlertsBlock(fileSize, resourceUsage) ==
  LET alerts == checkResourceThresholds(resourceUsage)
      requiredMemory == fileSize * 2
      availableMemory == resourceUsage.memory.free
      hasEnoughMemory == availableMemory > requiredMemory
  IN [hasEnoughResources |-> hasEnoughMemory /\ alerts = <<>>,
      alerts |-> alerts,
      memoryCheck |-> [required |-> requiredMemory, available |-> availableMemory,
                       sufficient |-> hasEnoughMemory]]

checkSystemResources(fileSize, resourceUsage) ==
  LET alerts == checkResourceThresholds(resourceUsage)
      requiredMemory == fileSize * 2
      availableMemory == resourceUsage.memory.free
      hasEnoughMemory == availableMemory > requiredMemory
  IN [hasEnoughResources |-> hasEnoughMemory,
      alerts |-> alerts,
      memoryCheck |-> [required |-> requiredMemory, available |-> availableMemory,
                       sufficient |-> hasEnoughMemory]]

\* stopMonitoring that resets the flag but leaves the interval scheduled
stopMonitoringKeepsTimer(monitor, scheduled) ==
  IF ~monitor.monitoring THEN [monitor |-> monitor, timers |-> scheduled]
  ELSE [monitor |-> [monitor EXCEPT !.monitoring = FALSE], timers |-> scheduled]

\* stopMonitoring that resets the handle to null when the monitor is not
\* monitoring
stopMonitoringResetsHandle(monitor, scheduled) ==
  IF ~monitor.monitoring
  THEN [monitor |-> [monitor EXCEPT !.monitoringInterval = 0], timers |-> scheduled]
  ELSE [monitor |-> [monitor EXCEPT !.monitoring = FALSE],
        timers |-> scheduled \ {monitor.monitoringInterval}]

\* ResourceMonitor.stopMonitoring: the handle is cleared, not reset to null
stopMonitoring(monitor, scheduled) ==
  IF ~monitor.monitoring THEN [monitor |-> monitor, timers |-> scheduled]
  ELSE [monitor |-> [monitor EXCEPT !.monitoring = FALSE],
        timers |-> scheduled \ {monitor.monitoringInterval}]

\* the handle setInterval returns: one that is neither scheduled nor the stale
\* handle the monitor still holds
NewTimer(monitor, scheduled) ==
  CHOOSE id \in 1..(Cardinality(scheduled) + 2) :
    /\ id \notin scheduled \cup {monitor.monitoringInterval}
    /\ \A other \in 1..(id - 1) : other \in scheduled \cup {monitor.monitoringInterval}

\* ResourceMonitor.startMonitoring: id is the handle setInterval returns
startMonitoring(monitor, scheduled, id) ==
  IF monitor.monitoring THEN [monitor |-> monitor, timers |-> scheduled]
  ELSE [monitor |-> [monitoring |-> TRUE, monitoringInterval |-> id],
        timers |-> scheduled \cup {id}]


\* ---------------------------------------------------------- idle components
Runs == 1..NumRuns

\* the locals and the history of an invocation that has not begun
NewRun ==
  [err |-> "none", outcome |-> "pending", admitted |-> "none", validate |-> "none",
   startedMonitoring |-> FALSE, createdDir |-> FALSE, unpackCalled |-> FALSE,
   files |-> 0, removal |-> "none"]

\* no parsePackage invocation has been made and the monitor is as constructed
EngineIdle ==
  /\ pc = [r \in Runs |-> "idle"]
  /\ rs = [r \in Runs |-> NewRun]
  /\ events = [r \in Runs |-> <<>>]
  /\ resourceMonitor = [monitoring |-> FALSE, monitoringInterval |-> 0]
  /\ timers = {}
  /\ tempDirExists = FALSE

NoProbe == [stage |-> "none"]

\* ------------------------------------------------- cache: states and steps
\* cache keys and contents the operations are called with
CacheKeys == {EmptyPath, 1, 1000}
Contents == {1, 2}
\* the percentages the pipeline passes (10, 30, 50) and the two ends
Percentages == {0, 10, 30, 50, 100}
\* Date.now() when the first modelled operation runs
ClockStart == maxCacheEntries

\* A cache of n entries as n earlier cacheFile calls leave it: keys
\* first..first+n-1 in insertion order; their timestamps rise ("asc"), are all
\* equal ("same": calls within one millisecond), come in pairs ("pairs") or
\* fall ("desc": every key was written again, last key first)
Patterns == {"asc", "same", "pairs", "desc"}
Stamp(pattern, n, i) ==
  CASE pattern = "asc" -> i
    [] pattern = "same" -> 1
    [] pattern = "pairs" -> (i + 1) \div 2
    [] pattern = "desc" -> n + 1 - i
Prefill(n, first, pattern) ==
  [i \in 1..n |-> [key |-> first + i - 1, content |-> 1, timestamp |-> Stamp(pattern, n, i)]]

NoOp == [seq |-> 0, name |-> "none", key |-> NullKey, pct |-> 0, high |-> FALSE, ret |-> 0]
Call(name, key, pct, high, ret) ==
  [seq |-> op.seq + 1, name |-> name, key |-> key, pct |-> pct, high |-> high, ret |-> ret]

\* the initial cache sizes of the cache specification
CacheFill == {0, 2, maxCacheEntries}

InitCache ==
  /\ fileCache \in {Prefill(n, first, pattern) :
                      n \in CacheFill, first \in {EmptyPath, 1}, pattern \in Patterns \ {"pairs"}}
  /\ now = ClockStart
  /\ op = NoOp
  /\ probe = NoProbe
  /\ EngineIdle

\* time passes between two calls
AdvanceClock ==
  /\ now < ClockStart + MaxClock
  /\ now' = now + 1
  /\ UNCHANGED <<fileCache, op, probe, engineVars>>

CacheFile ==
  /\ op.seq < MaxOps
  /\ \E k \in CacheKeys, c \in Contents, high \in BOOLEAN :
       /\ fileCache' = cacheFile(fileCache, k, c, high, now)
       /\ op' = Call("cacheFile", k, 0, high, 0)
  /\ UNCHANGED <<now, probe, engineVars>>

GetCachedFile ==
  /\ op.seq < MaxOps
  /\ \E k \in CacheKeys : op' = Call("getCachedFile", k, 0, FALSE, getCachedFile(fileCache, k))
  /\ UNCHANGED <<fileCache, now, probe, engineVars>>

EvictOldest ==
  /\ op.seq < MaxOps
  /\ fileCache' = evictOldestCacheEntry(fileCache)
  /\ op' = Call("evictOldestCacheEntry", NullKey, 0, FALSE, 0)
  /\ UNCHANGED <<now, probe, engineVars>>

\* smartClearMemoryCache returns nothing on an empty cache, else the removed count
SmartClear(pcts) ==
  \E p \in pcts :
    /\ fileCache' = smartClearMemoryCache(fileCache, p)
    /\ op' = Call("smartClearMemoryCache", NullKey, p, FALSE,
                  IF Len(fileCache) = 0 THEN 0 ELSE EntriesToRemove(fileCache, p))
    /\ UNCHANGED <<now, probe, engineVars>>

SmartClearCache ==
  /\ op.seq < MaxOps
  /\ SmartClear(Percentages)

ClearCache ==
  /\ op.seq < MaxOps
  /\ fileCache' = clearMemoryCache(fileCache)
  /\ op' = Call("clearMemoryCache", NullKey, 0, FALSE, 0)
  /\ UNCHANGED <<now, probe, engineVars>>

NextCache ==
  \/ AdvanceClock
  \/ CacheFile
  \/ GetCachedFile
  \/ EvictOldest
  \/ SmartClearCache
  \/ ClearCache

SpecCache == InitCache /\ [][NextCache]_vars

\* smartClearMemoryCache applied once to a cache of 0..MaxSmartEntries entries
MaxSmartEntries == 26

InitSmart ==
  /\ fileCache \in {Prefill(n, 1, pattern) : n \in 0..MaxSmartEntries, pattern \in Patterns}
  /\ now = ClockStart
  /\ op = NoOp
  /\ probe = NoProbe
  /\ EngineIdle

SmartClearOnce ==
  /\ op.seq = 0
  /\ SmartClear(0..100)

NextSmart == SmartClearOnce

SpecSmart == InitSmart /\ [][NextSmart]_vars

\* --------------------------------------------- detectFormat and unpack alone
Stems == { <<>>, <<"a">>, <<"a", ".", "b">>, <<"x", ".", "z", "i", "p", "/", "b">> }
Exts == { <<>>, <<".">>, <<"z", "i", "p">>,
          ExtZip, <<".", "Z", "I", "P">>, <<".", "Z", "i", "p">>, ExtAsar, <<".", "A", "s", "a", "r">>,
          ExtExe, <<".", "E", "X", "E">>, ExtDmg, <<".", "D", "m", "g">>, ExtDeb, ExtRpm,
          <<".", "R", "P", "M">>, Ext7z, <<".", "7", "Z">>, ExtRar, <<".", "R", "A", "R">>,
          <<".", "t", "x", "t">>, <<".", "t", "a", "r">>, <<".", "g", "z">>,
          <<".", "z", "i", "p", "x">>, <<".", "z", "i">>, <<".", "z", "i", "p", ".">> }
Paths == {stem \o ext : stem \in Stems, ext \in Exts}

InitUnpack ==
  /\ probe \in {[stage |-> "new", path |-> p, format |-> "none", branch |-> "none",
                 outcome |-> "none", io |-> FALSE,
                 asked |-> FALSE, supported |-> FALSE] : p \in Paths}
  /\ fileCache = <<>>
  /\ now = ClockStart
  /\ op = NoOp
  /\ EngineIdle

\* Unpacker.detectFormat(path)
DetectFormat ==
  /\ probe.stage = "new"
  /\ probe' = [probe EXCEPT !.stage = "detected", !.format = detectFormat(probe.path)]
  /\ UNCHANGED <<cacheVars, engineVars>>

\* Unpacker.unpack(path, dest): a rejected branch throws at once; any other
\* branch runs its extractor, which reads the container and writes to dest and
\* either returns or throws
Unpack ==
  /\ probe.stage \in {"new", "detected"}
  /\ LET branch == unpack(probe.path) IN
     \E ok \in BOOLEAN :
       probe' = [probe EXCEPT
                   !.stage = "unpacked",
                   !.format = detectFormat(probe.path),
                   !.branch = branch,
                   !.io = branch \notin Rejections,
                   !.outcome = IF branch \in Rejections THEN branch
                               ELSE IF ok THEN "returned" ELSE "failed"]
  /\ UNCHANGED <<cacheVars, engineVars>>

\* Engine.isSupported(path)
isSupported(filePath) == detectFormat(filePath) # "unknown"

IsSupported ==
  /\ ~probe.asked
  /\ probe' = [probe EXCEPT !.asked = TRUE, !.supported = isSupported(probe.path)]
  /\ UNCHANGED <<cacheVars, engineVars>>

NextUnpack ==
  \/ DetectFormat
  \/ Unpack
  \/ IsSupported

SpecUnpack == InitUnpack /\ [][NextUnpack]_vars

\* ----------------------------------------------- checkSystemResources alone
\* file sizes and free memory (in the same unit), and usage percentages on
\* both sides of each threshold
MaxFileSize == 3
FileSizes == 0..MaxFileSize
FreeMemory == 0..(2 * MaxFileSize + 1)
Usages == [memory : {resourceThresholds.memory, resourceThresholds.memory + 1},
           cpu : {resourceThresholds.cpu, resourceThresholds.cpu + 1},
           disk : {0, resourceThresholds.disk, resourceThresholds.disk + 1}]

\* getResourceUsage: what the sampling returns
ResourceUsage(free, u) ==
  [memory |-> [free |-> free, usage |-> u.memory], cpu |-> [usage |-> u.cpu],
   disk |-> [usage |-> u.disk]]

InitAdmit ==
  /\ probe \in {[stage |-> "new", fileSize |-> sz, resourceUsage |-> ResourceUsage(f, u),
                 result |-> <<>>] : sz \in FileSizes, f \in FreeMemory, u \in Usages}
  /\ fileCache = <<>>
  /\ now = ClockStart
  /\ op = NoOp
  /\ EngineIdle

CheckSystemResources ==
  /\ probe.stage = "new"
  /\ probe' = [probe EXCEPT !.stage = "checked",
                            !.result = checkSystemResources(probe.fileSize, probe.resourceUsage)]
  /\ UNCHANGED <<cacheVars, engineVars>>

NextAdmit == CheckSystemResources

SpecAdmit == InitAdmit /\ [][NextAdmit]_vars

\* ------------------------------------------------------ Engine.parsePackage
\* Each invocation is a sequence of steps, one per continuation: a step runs
\* from the completion of the awaited operation to the next await that waits
\* for I/O, a dialog or a timer.  The invocations share the monitor, the cache
\* and the scratch directory.  events[r] is the stage events and the terminal
\* events that invocation r passes to the onProgress callback it was given; the
\* advisory events ('warning', 'info') are not recorded.
Event(step, progress) == [step |-> step, progress |-> progress]
Emit(evs, step, progress) == Append(evs, Event(step, progress))

\* the size of the container and the samples the admission check may see
RunFileSize == 1
RunFreeMemory == {2 * RunFileSize, 2 * RunFileSize + 1}
RunUsages == {[memory |-> resourceThresholds.memory, cpu |-> resourceThresholds.cpu, disk |-> 0],
              [memory |-> resourceThresholds.memory + 1, cpu |-> resourceThresholds.cpu, disk |-> 0]}
\* the containers handed to parsePackage: a.zip and a.rar
RunPaths == {<<"a">> \o ExtZip, <<"a">> \o ExtRar}

\* the cache key of the i-th code file of the unpacked tree, and its content
FileKey(i) == i
FileContent == 1

\* an admission test that lets every run through
DeniedNever(resourceCheck) == FALSE

\* engine.js line 109: the run is refused
Denied(resourceCheck) == ~resourceCheck.hasEnoughResources

\* the catch and finally blocks that leave the scratch directory in place
FinishWithoutCleanup(r, run, evs, dir, cache) ==
  LET stopped == stopMonitoring(resourceMonitor, timers) IN
  /\ events' = [events EXCEPT ![r] = IF run.err # "none" THEN Emit(evs, "error", 0) ELSE evs]
  /\ resourceMonitor' = stopped.monitor
  /\ timers' = stopped.timers
  /\ fileCache' = clearMemoryCache(cache)
  /\ tempDirExists' = dir
  /\ pc' = [pc EXCEPT ![r] = "done"]
  /\ rs' = [rs EXCEPT ![r] = [run EXCEPT !.outcome = IF run.err = "none" THEN "resolved"
                                                     ELSE "rejected"]]

\* the catch block (when run.err is set) and the finally block, up to the
\* await of the removal; the promise settles at once when _cleanupTempDir finds
\* no directory.  dir and cache are the directory and the cache as the step
\* has left them so far.
Finish(r, run, evs, dir, cache) ==
  LET stopped == stopMonitoring(resourceMonitor, timers) IN
  /\ events' = [events EXCEPT ![r] = IF run.err # "none" THEN Emit(evs, "error", 0) ELSE evs]
  /\ resourceMonitor' = stopped.monitor
  /\ timers' = stopped.timers
  /\ fileCache' = clearMemoryCache(cache)
  /\ tempDirExists' = dir
  /\ IF dir
     THEN /\ pc' = [pc EXCEPT ![r] = "cleanup"]
          /\ rs' = [rs EXCEPT ![r] = run]
     ELSE /\ pc' = [pc EXCEPT ![r] = "done"]
          /\ rs' = [rs EXCEPT ![r] = [run EXCEPT !.outcome = IF run.err = "none" THEN "resolved"
                                                             ELSE "rejected"]]

Throw(r, err, evs, dir, cache) == Finish(r, [rs[r] EXCEPT !.err = err], evs, dir, cache)

\* lines 81-102: evaluateOutputPath (it never throws; its warnings are advisory
\* events), then await fs.stat
EvaluateOutputPath(r) ==
  /\ pc' = [pc EXCEPT ![r] = "stat"]
  /\ UNCHANGED <<rs, events, resourceMonitor, timers, tempDirExists, fileCache>>

\* parsePackage is called (invocations are numbered in the order they are
\* made): with onBackupPrompt it awaits the answer
Start(r) ==
  /\ pc[r] = "idle"
  /\ \A q \in Runs : q < r => pc[q] # "idle"
  /\ \/ /\ pc' = [pc EXCEPT ![r] = "prompt"]
        /\ UNCHANGED <<rs, events, resourceMonitor, timers, tempDirExists, fileCache>>
     \/ EvaluateOutputPath(r)
  /\ UNCHANGED <<now, op, probe>>

\* onBackupPrompt has answered
PromptAnswer(r) ==
  /\ pc[r] = "prompt"
  /\ \E shouldContinue \in BOOLEAN :
       IF shouldContinue THEN EvaluateOutputPath(r)
       ELSE Throw(r, "cancelled", events[r], tempDirExists, fileCache)
  /\ UNCHANGED <<now, op, probe>>

\* fs.stat has settled
StatDone(r) ==
  /\ pc[r] = "stat"
  /\ \/ /\ pc' = [pc EXCEPT ![r] = "check"]
        /\ UNCHANGED <<rs, events, resourceMonitor, timers, tempDirExists, fileCache>>
     \/ Throw(r, "stat", events[r], tempDirExists, fileCache)
  /\ UNCHANGED <<now, op, probe>>

\* checkSystemResources has resolved: lines 109-133, up to the first await
\* inside _initTempDir
CheckDone(r) ==
  /\ pc[r] = "check"
  /\ \E free \in RunFreeMemory, u \in RunUsages :
       LET resourceCheck == checkSystemResources(RunFileSize, ResourceUsage(free, u)) IN
       IF Denied(resourceCheck)
       THEN Finish(r, [rs[r] EXCEPT !.admitted = "no", !.err = "resources"],
                   Emit(events[r], "error", 0), tempDirExists, fileCache)
       ELSE LET started == startMonitoring(resourceMonitor, timers, NewTimer(resourceMonitor, timers)) IN
            /\ resourceMonitor' = started.monitor
            /\ timers' = started.timers
            /\ rs' = [rs EXCEPT ![r].admitted = IF resourceCheck.hasEnoughResources THEN "yes" ELSE "no",
                                ![r].startedMonitoring = TRUE]
            /\ pc' = [pc EXCEPT ![r] = IF tempDirExists THEN "initCleanup" ELSE "initCreate"]
            /\ UNCHANGED <<events, tempDirExists, fileCache>>
  /\ UNCHANGED <<now, op, probe>>

\* _initTempDir: the removal of the old scratch directory has settled; a failed
\* removal is swallowed by Platform.remove
InitCleanupDone(r) ==
  /\ pc[r] = "initCleanup"
  /\ \E removed \in BOOLEAN : tempDirExists' = (tempDirExists /\ ~removed)
  /\ pc' = [pc EXCEPT ![r] = "initCreate"]
  /\ UNCHANGED <<rs, events, resourceMonitor, timers, fileCache>>
  /\ UNCHANGED <<now, op, probe>>

\* _initTempDir: createDir has settled (a failure is swallowed); lines 134-143:
\* unpack is called and either throws at once or starts its extractor
InitCreateDone(r) ==
  /\ pc[r] = "initCreate"
  /\ \E created \in BOOLEAN, filePath \in RunPaths :
       LET dir == tempDirExists \/ created
           run == [rs[r] EXCEPT !.createdDir = TRUE, !.unpackCalled = TRUE]
           evs == Emit(events[r], "unpacking", 10)
       IN IF unpack(filePath) \in Rejections
          THEN Finish(r, [run EXCEPT !.err = "unsupported"], evs, dir, fileCache)
          ELSE /\ tempDirExists' = dir
               /\ rs' = [rs EXCEPT ![r] = run]
               /\ events' = [events EXCEPT ![r] = evs]
               /\ pc' = [pc EXCEPT ![r] = "unpack"]
               /\ UNCHANGED <<resourceMonitor, timers, fileCache>>
  /\ UNCHANGED <<now, op, probe>>

\* the extractor has settled; extraction creates the directories it writes to
UnpackDone(r) ==
  /\ pc[r] = "unpack"
  /\ \/ /\ tempDirExists' = TRUE
        /\ events' = [events EXCEPT ![r] = Emit(@, "scanning", 40)]
        /\ pc' = [pc EXCEPT ![r] = "scan"]
        /\ UNCHANGED <<rs, resourceMonitor, timers, fileCache>>
     \/ \E wrote \in BOOLEAN :
          Throw(r, "unpack", events[r], tempDirExists \/ wrote, fileCache)
  /\ UNCHANGED <<now, op, probe>>

\* Decompiler._scanDirectory after its batch: the cache is trimmed under
\* memory pressure
ScanBatch(cache) ==
  {cache} \cup {smartClearMemoryCache(cache, 30)}

\* scanFrontendFiles has resolved (it never rejects); reorganizeResources
\* begins with a scan of its own
ScanDone(r) ==
  /\ pc[r] = "scan"
  /\ \E cache \in ScanBatch(fileCache) : fileCache' = cache
  /\ pc' = [pc EXCEPT ![r] = "reorganize"]
  /\ UNCHANGED <<rs, events, resourceMonitor, timers, tempDirExists>>
  /\ UNCHANGED <<now, op, probe>>

\* reorganizeResources: its scan, detectFramework and the output directories
\* are done; a failure clears the cache and is rethrown
ReorganizeBegin(r) ==
  /\ pc[r] = "reorganize"
  /\ \/ \E n \in 0..MaxFiles, cache \in ScanBatch(fileCache) :
          /\ tempDirExists' = TRUE
          /\ rs' = [rs EXCEPT ![r].files = n]
          /\ IF n > 0
             THEN /\ events' = [events EXCEPT ![r] = Emit(@, "reorganizing", 60)]
                  /\ pc' = [pc EXCEPT ![r] = "decompile"]
                  /\ fileCache' = cache
             ELSE /\ events' = [events EXCEPT ![r] = Emit(@, "reorganizing", 80)]
                  /\ pc' = [pc EXCEPT ![r] = "entry"]
                  /\ fileCache' = clearMemoryCache(cache)
          /\ UNCHANGED <<resourceMonitor, timers>>
     \/ Throw(r, "reorganize", events[r], tempDirExists, clearMemoryCache(fileCache))
  /\ UNCHANGED <<now, op, probe>>

\* decompileFile: the file has been read and its result is cached, unless the
\* cache already held it or the read failed
Decompile(r) ==
  /\ pc[r] = "decompile"
  /\ LET key == FileKey(rs[r].files)
         hit == \E i \in DOMAIN fileCache : fileCache[i].key = key
     IN \E high \in BOOLEAN, readOk \in BOOLEAN :
          fileCache' = IF hit \/ ~readOk THEN fileCache
                       ELSE cacheFile(fileCache, key, FileContent, high, now)
  /\ pc' = [pc EXCEPT ![r] = "write"]
  /\ UNCHANGED <<rs, events, resourceMonitor, timers, tempDirExists>>
  /\ UNCHANGED <<now, op, probe>>

\* the write of the output file has settled (platform.writeFile swallows a
\* failure) and a tenth of the cache is dropped; after the last file of the
\* batch the cache is trimmed under memory pressure, then cleared, and the
\* entry file is generated
WriteDone(r) ==
  /\ pc[r] = "write"
  /\ \E high \in BOOLEAN :
       LET trimmed == smartClearMemoryCache(fileCache, 10)
           left == rs[r].files - 1
       IN /\ rs' = [rs EXCEPT ![r].files = left]
          /\ IF left > 0
             THEN /\ fileCache' = trimmed
                  /\ pc' = [pc EXCEPT ![r] = "decompile"]
                  /\ UNCHANGED events
             ELSE /\ fileCache' = clearMemoryCache(IF high THEN smartClearMemoryCache(trimmed, 50)
                                                   ELSE trimmed)
                  /\ pc' = [pc EXCEPT ![r] = "entry"]
                  /\ events' = [events EXCEPT ![r] = Emit(Emit(@, "reorganizing", 80),
                                                          "reorganizing", 80)]
  /\ UNCHANGED <<resourceMonitor, timers, tempDirExists>>
  /\ UNCHANGED <<now, op, probe>>

\* generateEntryFile has settled; then generateFrontendPackage is awaited
EntryDone(r) ==
  /\ pc[r] = "entry"
  /\ \/ /\ events' = [events EXCEPT ![r] = Emit(@, "reorganizing", 85)]
        /\ pc' = [pc EXCEPT ![r] = "package"]
        /\ UNCHANGED <<rs, resourceMonitor, timers, tempDirExists, fileCache>>
     \/ Throw(r, "reorganize", events[r], tempDirExists, clearMemoryCache(fileCache))
  /\ UNCHANGED <<now, op, probe>>

\* generateFrontendPackage (folder format) has settled; then
\* validateFrontendPackage is awaited
PackageDone(r) ==
  /\ pc[r] = "package"
  /\ \/ /\ events' = [events EXCEPT ![r] =
                        Emit(Emit(Emit(@, "packing", 85), "packing", 90), "validating", 95)]
        /\ pc' = [pc EXCEPT ![r] = "validate"]
        /\ UNCHANGED <<rs, resourceMonitor, timers, tempDirExists, fileCache>>
     \/ \E copying \in BOOLEAN :
          Throw(r, "package", IF copying THEN Emit(events[r], "packing", 85) ELSE events[r],
                tempDirExists, fileCache)
  /\ UNCHANGED <<now, op, probe>>

\* a validation test that accepts every artifact
ValidationFailedNever(validateResult) == FALSE

\* engine.js line 181: the artifact is refused
ValidationFailed(validateResult) == ~validateResult.success

\* validateFrontendPackage has resolved (it never rejects)
ValidateDone(r) ==
  /\ pc[r] = "validate"
  /\ \E success \in BOOLEAN :
       LET run == [rs[r] EXCEPT !.validate = IF success THEN "ok" ELSE "fail"] IN
       IF ValidationFailed([success |-> success])
       THEN Finish(r, [run EXCEPT !.err = "validate"], events[r], tempDirExists, fileCache)
       ELSE /\ rs' = [rs EXCEPT ![r] = run]
            /\ pc' = [pc EXCEPT ![r] = "info"]
            /\ UNCHANGED <<events, resourceMonitor, timers, tempDirExists, fileCache>>
  /\ UNCHANGED <<now, op, probe>>

\* getPackageInfo has resolved (it never rejects): lines 191-205, then finally
InfoDone(r) ==
  /\ pc[r] = "info"
  /\ Finish(r, rs[r], Emit(events[r], "completed", 100), tempDirExists, fileCache)
  /\ UNCHANGED <<now, op, probe>>

\* the removal awaited in the finally block has settled, and with it the
\* promise; a failed removal is swallowed by Platform.remove
CleanupDone(r) ==
  /\ pc[r] = "cleanup"
  /\ \E removed \in BOOLEAN :
       /\ tempDirExists' = (tempDirExists /\ ~removed)
       /\ rs' = [rs EXCEPT ![r].removal = IF removed THEN "done" ELSE "failed",
                           ![r].outcome = IF rs[r].err = "none" THEN "resolved" ELSE "rejected"]
  /\ pc' = [pc EXCEPT ![r] = "done"]
  /\ UNCHANGED <<events, resourceMonitor, timers, fileCache>>
  /\ UNCHANGED <<now, op, probe>>

Init ==
  /\ fileCache = <<>>
  /\ now = ClockStart
  /\ op = NoOp
  /\ probe = NoProbe
  /\ EngineIdle

Next ==
  \E r \in Runs :
    \/ Start(r)
    \/ PromptAnswer(r)
    \/ StatDone(r)
    \/ CheckDone(r)
    \/ InitCleanupDone(r)
    \/ InitCreateDone(r)
    \/ UnpackDone(r)
    \/ ScanDone(r)
    \/ ReorganizeBegin(r)
    \/ Decompile(r)
    \/ WriteDone(r)
    \/ EntryDone(r)
    \/ PackageDone(r)
    \/ ValidateDone(r)
    \/ InfoDone(r)
    \/ CleanupDone(r)

Spec == Init /\ [][Next]_vars

\* ------------------------------------------------------ claims: the engine
\* the step in which the promise of invocation r settles
Settled(r) == pc[r] # "done" /\ pc'[r] = "done"
HasEvent(r, step) == \E i \in DOMAIN events[r] : events[r][i].step = step
Quiet(r) == \A q \in Runs \ {r} : pc'[q] \in {"idle", "done"}

C2_CacheEmptyMonitorStoppedAtSettle ==
  [][\A r \in Runs : Settled(r) =>
       (fileCache' = <<>> /\ ~resourceMonitor'.monitoring /\ timers' = {})]_vars

\* C2 amended: the same, provided no other invocation is in progress when the
\* promise settles
C2_CacheEmptyMonitorStoppedWhenAlone ==
  [][\A r \in Runs : (Settled(r) /\ Quiet(r)) =>
       (fileCache' = <<>> /\ ~resourceMonitor'.monitoring /\ timers' = {})]_vars

\* a run that started the monitor and went through reorganizeResources has
\* resolved, no other run is in progress, the cache is empty and the monitor is
\* stopped, its stale handle still set
C2_Witness ==
  \E r \in Runs :
    /\ pc[r] = "done" /\ rs[r].outcome = "resolved" /\ rs[r].startedMonitoring
    /\ HasEvent(r, "reorganizing") /\ rs[r].removal = "done"
    /\ \A q \in Runs \ {r} : pc[q] \in {"idle", "done"}
    /\ fileCache = <<>> /\ ~resourceMonitor.monitoring /\ timers = {}
    /\ resourceMonitor.monitoringInterval # 0

\* C4: a run the admission check denies rejects with the resource error and
\* has not started monitoring, created the scratch directory or called unpack
C4_DeniedRunDoesNothing ==
  \A r \in Runs :
    rs[r].admitted = "no" =>
      /\ rs[r].err = "resources"
      /\ pc[r] \in {"cleanup", "done"}
      /\ pc[r] = "done" => rs[r].outcome = "rejected"
      /\ ~rs[r].startedMonitoring /\ ~rs[r].createdDir /\ ~rs[r].unpackCalled

\* a denied run has been rejected
C4_Witness ==
  \E r \in Runs :
    /\ pc[r] = "done" /\ rs[r].admitted = "no"
    /\ rs[r].outcome = "rejected" /\ rs[r].err = "resources"
    /\ HasEvent(r, "error")

\* C5: a run declined by onBackupPrompt rejects without calling unpack, and its
\* steps leave the scratch directory, the cache and the monitor as they were
C5_DeclineHasNoSideEffects ==
  [][\A r \in Runs :
       (pc'[r] # pc[r] /\ rs'[r].err = "cancelled") =>
         /\ ~rs'[r].unpackCalled
         /\ UNCHANGED <<tempDirExists, fileCache, resourceMonitor, timers>>]_vars

\* C6: a run resolves, or emits 'completed', only if validateFrontendPackage
\* returned success in that run; a run whose validation failed rejects and
\* emits no 'completed'
C6_ResolvedOnlyIfValidated ==
  \A r \in Runs :
    /\ (rs[r].outcome = "resolved" \/ HasEvent(r, "completed")) => rs[r].validate = "ok"
    /\ rs[r].validate = "fail" =>
         /\ rs[r].err = "validate"
         /\ pc[r] \in {"cleanup", "done"}
         /\ pc[r] = "done" => rs[r].outcome = "rejected"

\* one run has resolved after a successful validation and another has been
\* rejected after a failed one
C6_Witness ==
  \E r, q \in Runs :
    /\ pc[r] = "done" /\ rs[r].validate = "ok" /\ rs[r].outcome = "resolved"
    /\ HasEvent(r, "completed")
    /\ pc[q] = "done" /\ rs[q].validate = "fail" /\ rs[q].outcome = "rejected"
    /\ ~HasEvent(q, "completed") /\ HasEvent(q, "validating")

\* ------------------------------------------------------ claims: the unpacker
\* the path ends, case-insensitively, with the extension e
EndsWith(path, e) ==
  /\ Len(path) >= Len(e)
  /\ ToLowerCase(SubSeq(path, Len(path) - Len(e) + 1, Len(path))) = e
EndsWithAny(path, exts) == \E e \in exts : EndsWith(path, e)

ZipFamily == {ExtZip, ExtAsar}
InstallerFamily == {ExtExe, ExtDmg, ExtDeb, ExtRpm}
OtherFamily == {Ext7z, ExtRar}

C8_UnsupportedRejectsBeforeIO ==
  (probe.stage = "unpacked" /\ ~EndsWithAny(probe.path, ZipFamily \cup InstallerFamily))
    => (probe.outcome = "unsupported" /\ ~probe.io)

\* unpack has rejected a .rar path without any I/O
C8_Witness ==
  /\ probe.stage = "unpacked"
  /\ probe.path = <<"a", ".", "b", ".", "r", "a", "r">>
  /\ probe.outcome = "unsupported"
  /\ ~probe.io

\* --------------------------------------------------- claims: admission check
\* C3: checkSystemResources(S) answers hasEnoughResources = TRUE exactly when
\* the sampled free memory F is greater than 2*S, whatever the memory, CPU and
\* disk usage are relative to the thresholds
C3_AdmitIffFreeAboveTwiceSize ==
  probe.stage = "checked" =>
    (probe.result.hasEnoughResources
       <=> probe.resourceUsage.memory.free > 2 * probe.fileSize)

\* a file has been admitted while all three thresholds raise an alert
C3_Witness ==
  /\ probe.stage = "checked"
  /\ probe.result.alerts = <<"memory", "cpu", "disk">>
  /\ probe.result.hasEnoughResources
  /\ probe.fileSize > 0

\* ------------------------------------------------------- claims: the cache
\* the step just taken is a call of the named cache operation
Called(name) == op'.seq = op.seq + 1 /\ op'.name = name

\* the index of the entry with the oldest timestamp, the earliest inserted
\* among equal timestamps
OldestIndex(cache) ==
  CHOOSE i \in DOMAIN cache :
    \A j \in DOMAIN cache :
       \/ cache[i].timestamp < cache[j].timestamp
       \/ cache[i].timestamp = cache[j].timestamp /\ i <= j

WithoutIndex(cache, i) == SubSeq(cache, 1, i - 1) \o SubSeq(cache, i + 1, Len(cache))

\* C9: after any sequence of cache operations the cache holds at most
\* maxCacheEntries entries, and a cacheFile call that finds the cache full
\* (memory usage not high, size >= maxCacheEntries) removes exactly one entry
\* before it inserts: the entry with the oldest timestamp, the earliest
\* inserted among equal timestamps.
C9_BoundedAndEvictsOldest ==
  /\ [](Len(fileCache) <= maxCacheEntries)
  /\ [][(Called("cacheFile") /\ ~op'.high /\ Len(fileCache) >= maxCacheEntries)
          => fileCache' = MapSet(WithoutIndex(fileCache, OldestIndex(fileCache)), op'.key,
                                 [key |-> op'.key, content |-> MapGet(fileCache', op'.key),
                                  timestamp |-> now])]_vars

\* ceil(n * p / 100) in exact arithmetic
ExactCeil(n, p) == (n * p + 99) \div 100

\* C10: smartClearMemoryCache(p) on a cache of n entries, p in 0..100, removes
\* exactly ceil(n*p/100) entries, those with the smallest timestamps (insertion
\* order among equal timestamps), and leaves every other entry unchanged.
C10_SmartClearRemovesCeil ==
  [][Called("smartClearMemoryCache")
       => /\ Len(fileCache') = Len(fileCache) - ExactCeil(Len(fileCache), op'.pct)
          /\ \A i \in DOMAIN fileCache :
               LET kept == \E j \in DOMAIN fileCache' : fileCache'[j] = fileCache[i]
               IN kept <=> SortRank(fileCache, i) >= ExactCeil(Len(fileCache), op'.pct)
          /\ \A i, j \in DOMAIN fileCache' :
               i < j => \E a, b \in DOMAIN fileCache :
                          a < b /\ fileCache[a] = fileCache'[i] /\ fileCache[b] = fileCache'[j]]_vars

\* ------------------------------------- the clearing operations, called in a row
\* number of clearing calls in one behaviour, and the largest initial cache
MaxCalls == 2
MaxClearEntries == 3

\* probe.calls is the calls made so far, probe.before the cache as the last
\* call found it
InitClear ==
  /\ \E n \in 0..MaxClearEntries, first \in {EmptyPath, 1}, pattern \in Patterns :
       /\ fileCache = Prefill(n, first, pattern)
       /\ probe = [stage |-> "clearing", calls |-> <<>>, before |-> Prefill(n, first, pattern)]
  /\ now = ClockStart
  /\ op = NoOp
  /\ EngineIdle

Clearing(name, cache) ==
  /\ probe.stage = "clearing"
  /\ Len(probe.calls) < MaxCalls
  /\ fileCache' = cache
  /\ probe' = [probe EXCEPT !.calls = Append(@, name), !.before = fileCache]
  /\ UNCHANGED <<now, op, engineVars>>

CallClearMemoryCache == Clearing("clearMemoryCache", clearMemoryCache(fileCache))
CallEvictOldest == Clearing("evictOldestCacheEntry", evictOldestCacheEntry(fileCache))
CallSmartClear ==
  \E p \in Percentages : Clearing("smartClearMemoryCache", smartClearMemoryCache(fileCache, p))

NextClear ==
  \/ CallClearMemoryCache
  \/ CallEvictOldest
  \/ CallSmartClear

SpecClear == InitClear /\ [][NextClear]_vars

\* C11: clearMemoryCache, evictOldestCacheEntry and smartClearMemoryCache called
\* on an empty cache return and leave the cache empty, and a second
\* clearMemoryCache in a row leaves the cache as the first one left it
C11_ClearingAnEmptyCache ==
  (probe.stage = "clearing" /\ probe.calls # <<>>) =>
     LET n == Len(probe.calls) IN
     /\ probe.before = <<>> => fileCache = <<>>
     /\ (n >= 2 /\ probe.calls[n] = "clearMemoryCache" /\ probe.calls[n - 1] = "clearMemoryCache")
          => fileCache = probe.before

\* clearMemoryCache has been called twice in a row, the second time on the cache
\* the first call had emptied
C11_Witness ==
  /\ probe.stage = "clearing"
  /\ probe.calls = <<"clearMemoryCache", "clearMemoryCache">>
  /\ probe.before = <<>>
  /\ fileCache = <<>>

\* --------------------------------------------- the resource monitor, alone
\* One ResourceMonitor whose startMonitoring and stopMonitoring are called in
\* any order while its interval timer ticks.  A tick begins the sampling
\* (getResourceUsage awaits fs.statfs); when the sampling is done the callback
\* passed to startMonitoring is invoked.
\* number of startMonitoring / stopMonitoring calls, and of ticks
MaxMonitorCalls == 4
MaxTicks == 3

\* probe.sampling: for each timer, the number of its ticks whose sampling is
\* under way; probe.stops: the stopMonitoring calls made in a row since the last
\* startMonitoring (or the construction); probe.stopped: the monitor and the
\* scheduled timers as the first of these calls left them
InitMonitor ==
  /\ probe = [stage |-> "monitor", calls |-> 0, last |-> "none", ticks |-> 0,
              sampling |-> <<>>, stops |-> 0, stopped |-> <<>>]
  /\ fileCache = <<>>
  /\ now = ClockStart
  /\ op = NoOp
  /\ EngineIdle

Sampling(id) == IF id \in DOMAIN probe.sampling THEN probe.sampling[id] ELSE 0

\* resourceMonitor.startMonitoring(interval, callback)
StartMonitoring ==
  /\ probe.stage = "monitor"
  /\ probe.calls < MaxMonitorCalls
  /\ LET id == NewTimer(resourceMonitor, timers \cup {t \in DOMAIN probe.sampling : Sampling(t) > 0})
         started == startMonitoring(resourceMonitor, timers, id)
     IN /\ resourceMonitor' = started.monitor
        /\ timers' = started.timers
  /\ probe' = [probe EXCEPT !.calls = @ + 1, !.last = "start", !.stops = 0, !.stopped = <<>>]
  /\ UNCHANGED <<cacheVars, pc, rs, events, tempDirExists>>

\* resourceMonitor.stopMonitoring()
StopMonitoring ==
  /\ probe.stage = "monitor"
  /\ probe.calls < MaxMonitorCalls
  /\ LET stopped == stopMonitoring(resourceMonitor, timers) IN
     /\ resourceMonitor' = stopped.monitor
     /\ timers' = stopped.timers
     /\ probe' = [probe EXCEPT !.calls = @ + 1, !.last = "stop", !.stops = @ + 1,
                               !.stopped = IF probe.stops = 0
                                           THEN <<stopped.monitor, stopped.timers>> ELSE @]
  /\ UNCHANGED <<cacheVars, pc, rs, events, tempDirExists>>

\* the interval of a scheduled timer elapses: the async callback of setInterval
\* runs up to the await inside getResourceUsage
Tick ==
  /\ probe.stage = "monitor"
  /\ probe.ticks < MaxTicks
  /\ \E id \in timers :
       probe' = [probe EXCEPT !.ticks = @ + 1,
                              !.sampling = [t \in DOMAIN @ \cup {id} |->
                                              IF t = id THEN Sampling(id) + 1 ELSE @[t]]]
  /\ UNCHANGED <<cacheVars, engineVars>>

\* fs.statfs has settled: getResourceUsage returns, the thresholds are checked
\* and the callback is invoked
SampleDone ==
  /\ probe.stage = "monitor"
  /\ \E id \in DOMAIN probe.sampling :
       /\ Sampling(id) > 0
       /\ probe' = [probe EXCEPT !.sampling[id] = @ - 1]
  /\ UNCHANGED <<cacheVars, engineVars>>

NextMonitor ==
  \/ StartMonitoring
  \/ StopMonitoring
  \/ Tick
  \/ SampleDone

SpecMonitor == InitMonitor /\ [][NextMonitor]_vars

\* the step just taken is a call of stopMonitoring
StopCalled == probe'.calls = probe.calls + 1 /\ probe'.last = "stop"
\* the step just taken invokes the callback of a tick of timer id
CallbackInvoked(id) ==
  /\ id \in DOMAIN probe.sampling
  /\ probe'.sampling[id] = probe.sampling[id] - 1

\* C12: stopMonitoring on a monitor that is not monitoring (never started, or
\* already stopped) returns and leaves the flag, the handle and the scheduled
\* timers as they were; after a start, the monitor after any number of stops
\* is as the first stop left it
C12_StopIsIdempotent ==
  /\ [][(StopCalled /\ ~resourceMonitor.monitoring)
          => UNCHANGED <<resourceMonitor, timers>>]_vars
  /\ [](probe.stage = "monitor" /\ probe.stops >= 1
          => <<resourceMonitor, timers>> = probe.stopped)

\* the monitor has been started and then stopped twice
C12_Witness ==
  /\ probe.stage = "monitor"
  /\ probe.stops = 2 /\ probe.calls = 3
  /\ resourceMonitor.monitoringInterval # 0
  /\ ~resourceMonitor.monitoring /\ timers = {}

\* C13: once stopMonitoring has returned no interval timer of the monitor is
\* scheduled, and the callback passed to startMonitoring is not invoked for a
\* timer that stopMonitoring has cleared, even for a tick whose sampling had
\* begun before the stop
C13_NoCallbackAfterStop ==
  /\ [](probe.stage = "monitor" /\ ~resourceMonitor.monitoring => timers = {})
  /\ [][\A id \in DOMAIN probe.sampling : CallbackInvoked(id) => id \in timers]_vars

\* ------------------------------------------------- the batched worker pools
\* Decompiler.frontendExtensions, in property order
frontendExtensions ==
  << [type |-> "html", extensions |-> {<<".", "h", "t", "m", "l">>, <<".", "h", "t", "m">>}],
     [type |-> "css", extensions |-> {<<".", "c", "s", "s">>}],
     [type |-> "js", extensions |-> {<<".", "j", "s">>, <<".", "j", "s", "x">>, <<".", "t", "s">>, <<".", "t", "s", "x">>}],
     [type |-> "images", extensions |-> {<<".", "p", "n", "g">>, <<".", "j", "p", "g">>, <<".", "j", "p", "e", "g">>, <<".", "g", "i", "f">>, <<".", "s", "v", "g">>, <<".", "w", "e", "b", "p">>}],
     [type |-> "fonts", extensions |-> {<<".", "w", "o", "f", "f">>, <<".", "w", "o", "f", "f", "2">>, <<".", "t", "t", "f">>, <<".", "o", "t", "f">>}],
     [type |-> "config", extensions |-> {<<".", "j", "s", "o", "n">>, <<".", "y", "a", "m", "l">>, <<".", "y", "m", "l">>, <<".", "x", "m", "l">>}] >>

\* _scanDirectory lines 62-75 with a case-sensitive comparison of the extension
classifyCaseSensitive(fullPath) ==
  LET ext == Slice(fullPath, LastIndexOf(fullPath, "."))
      hits == {i \in DOMAIN frontendExtensions : ext \in frontendExtensions[i].extensions}
  IN IF hits = {} THEN "other"
     ELSE frontendExtensions[CHOOSE i \in hits : \A j \in hits : i <= j].type

\* _scanDirectory lines 62-75: the bucket a file is pushed to
classify(fullPath) ==
  LET ext == ToLowerCase(Slice(fullPath, LastIndexOf(fullPath, ".")))
      hits == {i \in DOMAIN frontendExtensions : ext \in frontendExtensions[i].extensions}
  IN IF hits = {} THEN "other"
     ELSE frontendExtensions[CHOOSE i \in hits : \A j \in hits : i <= j].type

\* the keys of the object scanFrontendFiles returns
Buckets == {"html", "css", "js", "images", "fonts", "config", "other"}

\* batch sizes: _scanDirectory, and reorganizeResources for code and for assets
ScanBatchSize == 50
CodeBatchSize == 5
AssetBatchSize == 20
\* the cap on the concurrency of one pool
MaxConcurrency == 4

MathMin(a, b) == IF a < b THEN a ELSE b
MathMax(a, b) == IF a > b THEN a ELSE b

\* Math.max(1, Math.min(os.cpus().length, 4))
concurrencyLimit(cpus) == MathMax(1, MathMin(cpus, MaxConcurrency))

\* os.cpus().length, nesting depth of the scanned tree and subdirectories per
\* directory
MaxCpus == 2
MaxDepth == 1
MaxSubdirs == 2
\* file reads and writes that fail during one reorganizeResources
MaxIoFailures == 1

\* The scanned tree: every directory above depth `depth` holds `subdirs`
\* directories, every directory holds `files` regular files, and readdir lists
\* the directories first or last.  A directory is named by the entry indices
\* leading to it from the root, an entry by its directory and its index.
\* The trees scanned: small ones (wide when shallow, chains when deeper), and
\* trees whose directories hold a few files less or more than one batch.
SmallTrees ==
  [depth : {0, 1}, subdirs : 1..MaxSubdirs, files : {0, 2}, dirsFirst : BOOLEAN]
  \cup [depth : 2..MaxDepth, subdirs : {1}, files : {0, 2}, dirsFirst : BOOLEAN]
BigTrees ==
  [depth : {0, 1}, subdirs : {2}, files : {ScanBatchSize - 1, ScanBatchSize + 1},
   dirsFirst : BOOLEAN]
Trees == SmallTrees \cup BigTrees

\* file names, given to the files of a directory in turn
FileNames ==
  << <<"i", "n", "d", "e", "x", ".", "h", "t", "m", "l">>,
     <<"s", "t", "y", "l", "e", ".", "c", "s", "s">>,
     <<"a", "p", "p", ".", "j", "s">>,
     <<"l", "o", "g", "o", ".", "P", "N", "G">>,
     <<"f", "o", "n", "t", ".", "w", "o", "f", "f", "2">>,
     <<"d", "a", "t", "a", ".", "j", "s", "o", "n">>,
     <<"r", "e", "a", "d", "m", "e", ".", "t", "x", "t">>,
     <<"M", "a", "k", "e", "f", "i", "l", "e">>,
     <<"p", "a", "g", "e", ".", "H", "T", "M">>,
     <<"v", "i", "e", "w", ".", "t", "s", "x">>,
     <<"p", "i", "c", ".", "j", "p", "e", "g">>,
     <<".", "y", "m", "l">> >>
RootDir == <<"/", "t">>
DirName == <<"v", "1", ".", "2">>

SubdirCount(tree, dir) == IF Len(dir) < tree.depth THEN tree.subdirs ELSE 0
EntryCount(tree, dir) == SubdirCount(tree, dir) + tree.files
\* entry.isDirectory(); every other entry is a regular file
IsDirectory(tree, dir, e) ==
  IF tree.dirsFirst THEN e <= SubdirCount(tree, dir) ELSE e > tree.files
FileName(tree, dir, e) ==
  LET ordinal == IF tree.dirsFirst THEN e - SubdirCount(tree, dir) ELSE e
  IN FileNames[((ordinal - 1) % Len(FileNames)) + 1]
\* platform.joinPath(directory, entry.name), from the root down
DirPath(dir) ==
  [k \in 1..(Len(RootDir) + Len(dir) * (Len(DirName) + 1)) |->
     IF k <= Len(RootDir) THEN RootDir[k]
     ELSE (<<"/">> \o DirName)[((k - Len(RootDir) - 1) % (Len(DirName) + 1)) + 1]]
FullPath(tree, dir, e) == DirPath(dir) \o <<"/">> \o FileName(tree, dir, e)

\* One batched loop (a _scanDirectory call, or one category of
\* reorganizeResources): n entries, taken `size` at a time; i is the offset of
\* the current batch, next the first entry parallelProcess has not started.
NewFrame(n, size) ==
  [state |-> "readdir", n |-> n, size |-> size, i |-> 0, next |-> 1,
   started |-> {}, completed |-> {}, written |-> {}]

\* parallelProcess: queue.length and activeWorkers
QueueLength(fr) == MathMin(fr.i + fr.size, fr.n) - fr.next + 1
ActiveWorkers(fr) == fr.started \ fr.completed

\* parallelProcess that returns as soon as the queue is empty
parallelProcessReturnsEarly(fr) == QueueLength(fr) = 0

\* parallelProcess line 75: the loop ends, and the call returns, when the queue
\* and the active workers are both empty
parallelProcessReturns(fr) == QueueLength(fr) = 0 /\ ActiveWorkers(fr) = {}

\* parallelProcess lines 76-85: workers are started while there is room
StartWorkers(fr, concurrency) ==
  LET k == MathMax(0, MathMin(concurrency - Cardinality(ActiveWorkers(fr)), QueueLength(fr)))
  IN [fr EXCEPT !.started = @ \cup (fr.next..(fr.next + k - 1)), !.next = @ + k]

\* the frame after one of its workers has completed: the loop of
\* parallelProcess goes on; when the call returns the next batch is taken, or
\* the frame is done
Advance(fr, concurrency) ==
  IF parallelProcessReturns(fr)
  THEN IF fr.i + fr.size >= fr.n THEN [fr EXCEPT !.state = "done"]
       ELSE StartWorkers([fr EXCEPT !.i = @ + fr.size], concurrency)
  ELSE StartWorkers(fr, concurrency)

\* files[type].push(fullPath) for each of the entries: a bucket is recorded as
\* the number of times each path has been pushed to it
PushAll(tree, files, entries) ==
  [type \in DOMAIN files |->
     LET new == {id \in entries : classify(FullPath(tree, id[1], id[2])) = type}
     IN [id \in DOMAIN files[type] \cup new |->
           (IF id \in DOMAIN files[type] THEN files[type][id] ELSE 0)
           + (IF id \in new THEN 1 ELSE 0)]]

\* the walk after frame dir has become fr and its loop has gone on: the file
\* tasks it starts run to their end (the path is pushed), the directory tasks
\* call _scanDirectory, which awaits readdir
ScanAdvance(pr, dir, fr) ==
  LET after == Advance(fr, concurrencyLimit(pr.cpus))
      begun == after.started \ fr.started
      dirs == {e \in begun : IsDirectory(pr.tree, dir, e)}
      children == {Append(dir, e) : e \in dirs}
  IN [pr EXCEPT
        !.frames = [d \in DOMAIN pr.frames \cup children |->
                      IF d = dir THEN after
                      ELSE IF d \in DOMAIN pr.frames THEN pr.frames[d]
                      ELSE NewFrame(EntryCount(pr.tree, d), ScanBatchSize)],
        !.files = PushAll(pr.tree, pr.files, {<<dir, e>> : e \in begun \ dirs})]

CpuCounts == 1..MaxCpus

\* the walks: a small tree on any number of processors, a big one on one or two
Walks ==
  {[tree |-> t, cpus |-> c] : t \in SmallTrees, c \in CpuCounts}
  \cup {[tree |-> t, cpus |-> c] : t \in BigTrees, c \in {1, 2}}

InitBatches ==
  /\ probe \in {[stage |-> "batches", job |-> "none", tree |-> w.tree, cpus |-> w.cpus,
                 frames |-> <<>>, files |-> [type \in Buckets |-> <<>>], unreadable |-> {},
                 category |-> 0, failures |-> 0] :
                  w \in Walks}
  /\ fileCache = <<>>
  /\ now = ClockStart
  /\ op = NoOp
  /\ EngineIdle

\* the file tasks whose promise is resolved and whose completion is queued
FileTasks(pr, dir) ==
  {e \in ActiveWorkers(pr.frames[dir]) : ~IsDirectory(pr.tree, dir, e)}
\* no continuation is queued: the event loop waits for I/O
ScanQuiescent ==
  \A dir \in DOMAIN probe.frames :
    /\ probe.frames[dir].state = "pool" => FileTasks(probe, dir) = {}
    /\ dir # <<>> => probe.frames[dir].state # "done"

\* scanFrontendFiles(root) is called: _scanDirectory(root) awaits readdir
ScanFrontendFiles ==
  /\ probe.stage = "batches" /\ probe.job = "none"
  /\ probe' = [probe EXCEPT !.job = "scan",
                            !.frames = [d \in {<<>>} |->
                                          NewFrame(EntryCount(probe.tree, <<>>), ScanBatchSize)]]
  /\ UNCHANGED <<cacheVars, engineVars>>

\* _scanDirectory that lets a readdir failure end the whole scan
scanDirectoryRethrows(pr, dir) ==
  [pr EXCEPT !.frames = [d \in {<<>>} |-> [pr.frames[dir] EXCEPT !.state = "done"]],
             !.unreadable = @ \cup {dir}]

\* _scanDirectory lines 84-86: the failure of readdir is caught and logged, and
\* the call of this directory returns
scanDirectoryCatch(pr, dir) ==
  [pr EXCEPT !.frames[dir].state = "done", !.unreadable = @ \cup {dir}]

\* readdir has settled: the entries are taken in batches, or the failure is
\* caught and the directory is skipped
ScanReaddirDone ==
  /\ probe.stage = "batches" /\ probe.job = "scan"
  /\ ScanQuiescent
  /\ \E dir \in DOMAIN probe.frames :
       /\ probe.frames[dir].state = "readdir"
       /\ \/ probe' = ScanAdvance(probe, dir, [probe.frames[dir] EXCEPT !.state = "pool"])
          \/ probe' = scanDirectoryCatch(probe, dir)
  /\ \E cache \in ScanBatch(fileCache) : fileCache' = cache
  /\ UNCHANGED <<now, op, engineVars>>

\* the completions of the file tasks run and parallelProcess resumes
ScanResume ==
  /\ probe.stage = "batches" /\ probe.job = "scan"
  /\ \E dir \in DOMAIN probe.frames :
       /\ probe.frames[dir].state = "pool"
       /\ FileTasks(probe, dir) # {}
       /\ probe' = ScanAdvance(probe, dir,
                               [probe.frames[dir] EXCEPT !.completed = @ \cup FileTasks(probe, dir)])
  /\ \E cache \in ScanBatch(fileCache) : fileCache' = cache
  /\ UNCHANGED <<now, op, engineVars>>

\* the _scanDirectory call of a directory task has returned: the task completes
\* and parallelProcess resumes in the parent directory
ScanDirTaskDone ==
  /\ probe.stage = "batches" /\ probe.job = "scan"
  /\ \E dir \in DOMAIN probe.frames, e \in 1..(MaxSubdirs + ScanBatchSize + 1) :
       /\ Append(dir, e) \in DOMAIN probe.frames
       /\ probe.frames[Append(dir, e)].state = "done"
       /\ LET rest == [probe EXCEPT !.frames = [d \in DOMAIN @ \ {Append(dir, e)} |-> @[d]]]
          IN probe' = ScanAdvance(rest, dir,
                                  [probe.frames[dir] EXCEPT !.completed = @ \cup {e}])
  /\ \E cache \in ScanBatch(fileCache) : fileCache' = cache
  /\ UNCHANGED <<now, op, engineVars>>

\* reorganizeResources lines 290-297: the categories in the order they are
\* processed
fileTypes == <<"html", "css", "js", "images", "fonts", "config">>

\* _isCodeFile for the files of a category
IsCodeCategory(type) == type \in {"html", "css", "js"}

\* typeFiles.length
BucketLength(bucket) ==
  Cardinality(UNION {{<<id, k>> : k \in 1..bucket[id]} : id \in DOMAIN bucket})

\* the cache key of entry e of category c
CategoryFileKey(c, e) == c * 1000 + e

\* the entries whose decompiled content the cache holds
Cached(cache, c, entries) ==
  {e \in entries : \E i \in DOMAIN cache : cache[i].key = CategoryFileKey(c, e)}

\* lines 302-316 from category c on: the first category that has files is
\* begun (its first workers are started: a code file is read unless the cache
\* holds it, an asset is copied); after the last category the cache is cleared
\* and the entry file is generated
BeginCategory(pr, c, cache) ==
  LET left == {k \in c..Len(fileTypes) : BucketLength(pr.files[fileTypes[k]]) > 0} IN
  IF left = {}
  THEN [probe |-> [pr EXCEPT !.job = "reorganized", !.category = 0,
                             !.frames = [d \in {<<>>} |-> [pr.frames[<<>>] EXCEPT !.state = "done"]]],
        cache |-> clearMemoryCache(cache)]
  ELSE LET k == CHOOSE k \in left : \A j \in left : k <= j
           size == IF IsCodeCategory(fileTypes[k]) THEN CodeBatchSize ELSE AssetBatchSize
           fr == StartWorkers([NewFrame(BucketLength(pr.files[fileTypes[k]]), size)
                                 EXCEPT !.state = "pool"],
                              concurrencyLimit(pr.cpus))
       IN [probe |-> [pr EXCEPT !.job = "reorganize", !.category = k,
                                !.frames = [d \in {<<>>} |->
                                              [fr EXCEPT !.written = Cached(cache, k, fr.started)]]],
           cache |-> cache]

\* the scan of reorganizeResources (line 277) has completed; detectFramework
\* and the output directories are done: the first category is begun
ReorganizeFiles ==
  /\ probe.stage = "batches" /\ probe.job = "scan"
  /\ probe.frames[<<>>].state = "done"
  /\ LET begun == BeginCategory(probe, 1, fileCache) IN
     /\ probe' = begun.probe
     /\ fileCache' = begun.cache
  /\ UNCHANGED <<now, op, engineVars>>

\* a worker of the category has completed its entry (lines 335-354): the loop
\* of parallelProcess goes on; when the batch is done the cache is trimmed
\* under memory pressure and the next batch, or the next category, is begun
WorkerDone(e, cache, failed) ==
  LET c == probe.category
      fr == [probe.frames[<<>>] EXCEPT !.completed = @ \cup {e}]
      batchDone == parallelProcessReturns(fr)
      after == Advance(fr, concurrencyLimit(probe.cpus))
  IN \E trimmed \in (IF batchDone THEN {cache, smartClearMemoryCache(cache, 50)} ELSE {cache}) :
       IF after.state = "done"
       THEN LET begun == BeginCategory(probe, c + 1, trimmed) IN
            /\ probe' = [begun.probe EXCEPT !.failures = @ + failed]
            /\ fileCache' = begun.cache
       ELSE /\ probe' = [probe EXCEPT !.frames[<<>>] =
                           [after EXCEPT !.written = @ \cup Cached(trimmed, c, after.started \ fr.started)],
                                      !.failures = @ + failed]
            /\ fileCache' = trimmed

\* decompileFile: the read of a code file has settled; its content is cached
\* unless the read failed; then the output file is written
ReorganizeReadDone ==
  /\ probe.stage = "batches" /\ probe.job = "reorganize"
  /\ IsCodeCategory(fileTypes[probe.category])
  /\ \E e \in ActiveWorkers(probe.frames[<<>>]) \ probe.frames[<<>>].written,
        readOk \in BOOLEAN, high \in BOOLEAN :
       /\ ~readOk => probe.failures < MaxIoFailures
       /\ probe' = [probe EXCEPT !.frames[<<>>].written = @ \cup {e},
                                 !.failures = IF readOk THEN @ ELSE @ + 1]
       /\ fileCache' = IF readOk
                       THEN cacheFile(fileCache, CategoryFileKey(probe.category, e),
                                      FileContent, high, now)
                       ELSE fileCache
  /\ UNCHANGED <<now, op, engineVars>>

\* the write of a code file has settled (platform.writeFile catches a failure
\* and resolves): a tenth of the cache is dropped
ReorganizeWriteDone ==
  /\ probe.stage = "batches" /\ probe.job = "reorganize"
  /\ IsCodeCategory(fileTypes[probe.category])
  /\ \E e \in ActiveWorkers(probe.frames[<<>>]) \cap probe.frames[<<>>].written :
       WorkerDone(e, smartClearMemoryCache(fileCache, 10), 0)
  /\ UNCHANGED <<now, op, engineVars>>

\* the copy of an asset has settled (a failure is caught)
ReorganizeCopyDone ==
  /\ probe.stage = "batches" /\ probe.job = "reorganize"
  /\ ~IsCodeCategory(fileTypes[probe.category])
  /\ \E e \in ActiveWorkers(probe.frames[<<>>]) : WorkerDone(e, fileCache, 0)
  /\ UNCHANGED <<now, op, engineVars>>

NextBatches ==
  \/ ScanFrontendFiles
  \/ ScanReaddirDone
  \/ ScanResume
  \/ ScanDirTaskDone
  \/ ReorganizeFiles
  \/ ReorganizeReadDone
  \/ ReorganizeWriteDone
  \/ ReorganizeCopyDone

SpecBatches == InitBatches /\ [][NextBatches]_vars

\* the entry-processing tasks in flight in the whole walk
TasksInFlight ==
  Cardinality({id \in UNION {{<<dir, e>> : e \in ActiveWorkers(probe.frames[dir])} :
                               dir \in DOMAIN probe.frames} : TRUE})

\* C14: during scanFrontendFiles the number of entry-processing tasks in
\* flight in the whole directory walk, recursive scans included, is at most
\* min(cpuCount, 4)
C14_WalkWideTaskBound ==
  (probe.stage = "batches" /\ probe.job = "scan")
    => TasksInFlight <= MathMin(probe.cpus, MaxConcurrency)

\* the directories of the tree and its regular files
TreeDirs(tree) ==
  UNION {{dir \in [1..k -> 1..(tree.subdirs + tree.files)] :
            \A j \in 1..k : IsDirectory(tree, SubSeq(dir, 1, j - 1), dir[j])} :
           k \in 0..tree.depth}
TreeFiles(tree) ==
  {id \in (TreeDirs(tree) \X (1..(tree.subdirs + tree.files))) :
     id[2] <= EntryCount(tree, id[1]) /\ ~IsDirectory(tree, id[1], id[2])}

\* the category whose extension list holds the extension the path ends with
CategoryOf(path) ==
  CASE EndsWithAny(path, frontendExtensions[1].extensions) -> "html"
    [] EndsWithAny(path, frontendExtensions[2].extensions) -> "css"
    [] EndsWithAny(path, frontendExtensions[3].extensions) -> "js"
    [] EndsWithAny(path, frontendExtensions[4].extensions) -> "images"
    [] EndsWithAny(path, frontendExtensions[5].extensions) -> "fonts"
    [] EndsWithAny(path, frontendExtensions[6].extensions) -> "config"
    [] OTHER -> "other"

ScanCompleted ==
  /\ probe.stage = "batches" /\ probe.job = "scan"
  /\ probe.frames[<<>>].state = "done"
  /\ probe.unreadable = {}

\* C16: when scanFrontendFiles has completed without I/O error, every regular
\* file under the root is in the result exactly once, in the bucket of the first
\* category whose list holds its lower-cased extension ('other' when none
\* does), and the result holds nothing else
C16_EveryFileInItsBucketOnce ==
  ScanCompleted =>
    \A type \in Buckets :
      /\ DOMAIN probe.files[type] =
           {id \in TreeFiles(probe.tree) :
              CategoryOf(FullPath(probe.tree, id[1], id[2])) = type}
      /\ \A id \in DOMAIN probe.files[type] : probe.files[type][id] = 1

\* a scan of a root and its two subdirectories, each holding more files than
\* one batch, has completed with files in every bucket
C16_Witness ==
  /\ ScanCompleted
  /\ probe.tree.depth = 1 /\ probe.tree.subdirs = 2 /\ probe.tree.files > ScanBatchSize
  /\ \A type \in Buckets : probe.files[type] # <<>>
  /\ \E id \in DOMAIN probe.files["images"] : id[1] # <<>>

\* the batch an entry of a frame belongs to
BatchOf(fr, e) == (e - 1) \div fr.size

\* C15: in every batched loop (a directory of a scan, a category of
\* reorganizeResources) an entry is started only when every entry of the
\* earlier batches of that loop has completed
C15_BatchesAreBarriers ==
  probe.stage = "batches" =>
    \A dir \in DOMAIN probe.frames :
      LET fr == probe.frames[dir] IN
      \A e \in fr.started, earlier \in 1..fr.n :
        BatchOf(fr, earlier) < BatchOf(fr, e) => earlier \in fr.completed

\* the scan of a directory whose first batch ended with a subdirectory has
\* completed, and the second batch of the images of reorganizeResources is
\* under way
C15_Witness ==
  /\ probe.stage = "batches" /\ probe.job = "reorganize"
  /\ ~probe.tree.dirsFirst /\ probe.tree.files = ScanBatchSize - 1
  /\ probe.tree.depth = 1 /\ probe.tree.subdirs = 2
  /\ fileTypes[probe.category] = "images"
  /\ probe.frames[<<>>].i = AssetBatchSize
  /\ ActiveWorkers(probe.frames[<<>>]) # {}

\* ------------------------------------- reorganize, package, validate: the files
\* One parsePackage run in directory mode from the unpacked tree on: which
\* files reorganizeResources writes where, what _generateFolder leaves at the
\* destination and what validateFrontendPackage answers.  A tree is recorded
\* as the function from the paths of its files (relative to its root) to where
\* their content comes from: a source path, Generated or Old.
IndexHtml == <<"i", "n", "d", "e", "x", ".", "h", "t", "m", "l">>
Generated == <<"*">>
Old == <<"?">>
OldTxt == <<"o", "l", "d", ".", "t", "x", "t">>
PackageJson == <<"/", "u", "/", "p", "a", "c", "k", "a", "g", "e", ".", "j", "s", "o", "n">>

\* the unpacked trees: up to MaxSourceFiles of these files
MaxSourceFiles == 3
SourceFiles ==
  { <<"/", "u", "/", "i", "n", "d", "e", "x", ".", "h", "t", "m", "l">>,
    <<"/", "u", "/", "a", "p", "p", ".", "j", "s">>,
    <<"/", "u", "/", "s", "t", "y", "l", "e", ".", "c", "s", "s">>,
    <<"/", "u", "/", "r", "e", "a", "d", "m", "e", ".", "t", "x", "t">>,
    <<"/", "u", "/", "l", "i", "b", "/", "a", "p", "p", ".", "j", "s">>,
    <<"/", "u", "/", "i", "m", "g", "/", "l", "o", "g", "o", ".", "P", "N", "G">>,
    PackageJson }
SourceTrees == {src \in SUBSET SourceFiles : Cardinality(src) <= MaxSourceFiles}

\* what is at outputDir before the run: nothing, or a directory
Absent == [exists |-> FALSE, tree |-> <<>>]
Destinations ==
  {Absent,
   [exists |-> TRUE, tree |-> [p \in {OldTxt} |-> Old]],
   [exists |-> TRUE, tree |-> [p \in {OldTxt, IndexHtml} |-> Old]]}

\* file.slice(file.lastIndexOf(platform.getPathSeparator()) + 1)
BaseName(file) == Slice(file, LastIndexOf(file, "/") + 1)

\* platform.joinPath below the root of a tree
RelJoin(dir, name) == IF dir = <<>> THEN name ELSE dir \o <<"/">> \o name

\* reorganizeResources that puts the style sheets at the output root
destFlatCss(type) ==
  CASE type = "js" -> <<"j", "s">>
    [] type = "images" -> <<"a", "s", "s", "e", "t", "s", "/", "i", "m", "a", "g", "e", "s">>
    [] type = "fonts" -> <<"a", "s", "s", "e", "t", "s", "/", "f", "o", "n", "t", "s">>
    [] OTHER -> <<>>

\* reorganizeResources lines 290-297: dest of each category, below outputDir
dest(type) ==
  CASE type = "html" -> <<>>
    [] type = "css" -> <<"c", "s", "s">>
    [] type = "js" -> <<"j", "s">>
    [] type = "images" -> <<"a", "s", "s", "e", "t", "s", "/", "i", "m", "a", "g", "e", "s">>
    [] type = "fonts" -> <<"a", "s", "s", "e", "t", "s", "/", "f", "o", "n", "t", "s">>
    [] type = "config" -> <<>>

\* fs.writeFile / fs.copy of one file into a tree
WriteFile(tree, path, content) ==
  [p \in DOMAIN tree \cup {path} |-> IF p = path THEN content ELSE tree[p]]

\* fs.copy(sourceDir, outputDir): the files of the source are written over
\* whatever the destination holds
CopyDir(source, target) ==
  [p \in DOMAIN target \cup DOMAIN source |-> IF p \in DOMAIN source THEN source[p] ELSE target[p]]

\* _generateFolder that never removes the destination
outputDirExistsNever(target) == FALSE

\* _generateFolder line 41: fs.exists(outputDir)
outputDirExists(target) == target.exists

\* the artifact validateFrontendPackage is given: names are the paths of the
\* files of a directory, or the entry names of an archive adm-zip can read
Artifact(exists, isDirectory, path, names, readable) ==
  [exists |-> exists, isDirectory |-> isDirectory, path |-> path, names |-> names,
   readable |-> readable]

\* Packer.validateFrontendPackage: every throw is caught and answered with
\* success false
validateFrontendPackage(artifact) ==
  LET ext == ToLowerCase(Slice(artifact.path, LastIndexOf(artifact.path, ".")))
      no(message) == [success |-> FALSE, message |-> message]
  IN IF ~artifact.exists THEN no("stat")
     ELSE IF artifact.isDirectory
       THEN IF IndexHtml \notin artifact.names /\ ext # ExtZip THEN no("missing entry file")
            ELSE [success |-> TRUE, message |-> "ok"]
     ELSE IF ext = ExtZip
       THEN IF ~artifact.readable THEN no("zip unreadable")
            ELSE IF IndexHtml \notin artifact.names THEN no("missing entry in zip")
            ELSE [success |-> TRUE, message |-> "ok"]
     ELSE no("unsupported")

OutputDir == <<"/", "o">>

InitOutput ==
  /\ probe \in {[stage |-> "output", pc |-> "new", source |-> src, before |-> d, target |-> d,
                 files |-> [type \in Buckets |-> {}], todo |-> {}, out |-> <<>>,
                 writes |-> {}, skipped |-> {}, degraded |-> {},
                 fileCount |-> -1, validate |-> "none"] :
                  src \in SourceTrees, d \in Destinations}
  /\ fileCache = <<>>
  /\ now = ClockStart
  /\ op = NoOp
  /\ EngineIdle

\* the index in fileTypes of the category a classified file belongs to
CategoryIndex(file) == CHOOSE k \in DOMAIN fileTypes : fileTypes[k] = classify(file)

\* reorganizeResources lines 277-297: the scan, detectFramework (which throws
\* on a manifest it cannot parse) and the output directories
OutputReorganizeBegin ==
  /\ probe.stage = "output" /\ probe.pc = "new"
  /\ \/ probe' = [probe EXCEPT
                    !.pc = "files",
                    !.files = [type \in Buckets |-> {f \in probe.source : classify(f) = type}],
                    !.todo = {f \in probe.source : classify(f) # "other"}]
     \/ /\ PackageJson \in probe.source
        /\ probe' = [probe EXCEPT !.pc = "failed"]
  /\ UNCHANGED <<cacheVars, engineVars>>

\* what decompileFile returns without the beautified text: the raw text of the
\* second read, or the empty string when that read fails too
Raw(file) == <<"~">> \o file
Empty == <<"0">>

\* decompileFile lines 103-130 on a cache miss: the beautified text of the
\* stream read, else the text of platform.readFile, else ''
decompileFile(file, read) ==
  IF read = "stream" THEN file
  ELSE IF read = "fallback" THEN Raw(file)
  ELSE Empty

\* lines 319-337 for one file of the first category that has files left: a
\* code file is written with what decompileFile returns, any other file is
\* copied, both under the base name into the directory of the category;
\* platform.writeFile and platform.copy catch their failure
OutputFile ==
  /\ probe.stage = "output" /\ probe.pc = "files"
  /\ \E file \in probe.todo, read \in {"stream", "fallback", "none"}, ok \in BOOLEAN :
       /\ \A other \in probe.todo : CategoryIndex(file) <= CategoryIndex(other)
       /\ ~IsCodeCategory(classify(file)) => read = "stream"
       /\ LET outputPath == RelJoin(dest(classify(file)), BaseName(file))
              content == IF IsCodeCategory(classify(file)) THEN decompileFile(file, read)
                         ELSE file
              done == [probe EXCEPT !.todo = @ \ {file},
                                    !.degraded = IF read = "stream" THEN @ ELSE @ \cup {file}]
          IN probe' = IF ok
                      THEN [done EXCEPT !.out = WriteFile(@, outputPath, content),
                                        !.writes = @ \cup {<<file, outputPath>>}]
                      ELSE [done EXCEPT !.skipped = @ \cup {file}]
  /\ UNCHANGED <<cacheVars, engineVars>>

\* lines 358-375: generateEntryFile writes index.html at the output root and
\* reorganizeResources returns the number of files the scan found
OutputEntry ==
  /\ probe.stage = "output" /\ probe.pc = "files" /\ probe.todo = {}
  /\ \/ probe' = [probe EXCEPT
                    !.pc = "pack",
                    !.out = WriteFile(@, IndexHtml, Generated),
                    !.fileCount = Cardinality(UNION {probe.files[type] : type \in Buckets})]
     \/ probe' = [probe EXCEPT !.pc = "failed"]
  /\ UNCHANGED <<cacheVars, engineVars>>

\* _generateFolder: fs.exists has answered
OutputPackBegin ==
  /\ probe.stage = "output" /\ probe.pc = "pack"
  /\ probe' = [probe EXCEPT !.pc = IF outputDirExists(probe.target) THEN "remove" ELSE "copy"]
  /\ UNCHANGED <<cacheVars, engineVars>>

\* _generateFolder: fs.remove has settled
OutputRemoveDone ==
  /\ probe.stage = "output" /\ probe.pc = "remove"
  /\ \/ probe' = [probe EXCEPT !.pc = "copy", !.target = Absent]
     \/ probe' = [probe EXCEPT !.pc = "failed"]
  /\ UNCHANGED <<cacheVars, engineVars>>

\* _generateFolder: fs.copy has settled; a failed copy leaves what it had
\* written so far
OutputCopyDone ==
  /\ probe.stage = "output" /\ probe.pc = "copy"
  /\ \/ probe' = [probe EXCEPT
                    !.pc = "validate",
                    !.target = [exists |-> TRUE, tree |-> CopyDir(probe.out, probe.target.tree)]]
     \/ \E part \in SUBSET DOMAIN probe.out :
          /\ part # DOMAIN probe.out
          /\ probe' = [probe EXCEPT
                         !.pc = "failed",
                         !.target = [exists |-> probe.target.exists \/ part # {},
                                     tree |-> CopyDir([p \in part |-> probe.out[p]],
                                                      probe.target.tree)]]
  /\ UNCHANGED <<cacheVars, engineVars>>

\* validateFrontendPackage(outputPath) has resolved: parsePackage returns
\* fileCount, or throws
OutputValidateDone ==
  /\ probe.stage = "output" /\ probe.pc = "validate"
  /\ LET validateResult ==
           validateFrontendPackage(Artifact(probe.target.exists, TRUE, OutputDir,
                                            DOMAIN probe.target.tree, FALSE))
     IN probe' = [probe EXCEPT !.pc = IF ValidationFailed(validateResult) THEN "failed" ELSE "done",
                               !.validate = IF validateResult.success THEN "ok" ELSE "fail"]
  /\ UNCHANGED <<cacheVars, engineVars>>

NextOutput ==
  \/ OutputReorganizeBegin
  \/ OutputFile
  \/ OutputEntry
  \/ OutputPackBegin
  \/ OutputRemoveDone
  \/ OutputCopyDone
  \/ OutputValidateDone

SpecOutput == InitOutput /\ [][NextOutput]_vars

\* the run has got past reorganizeResources, whose result carries the count
Reorganized == probe.stage = "output" /\ probe.fileCount # -1

\* C17: the file count reorganizeResources returns counts only the files of
\* the recognized categories html, css, js, images, fonts and config, so that
\* it is 0 for a source tree whose only file is readme.txt.
C17_FileCountRecognizedOnly ==
  Reorganized =>
    probe.fileCount = Cardinality({f \in probe.source : classify(f) # "other"})

\* the canonical directory of the category of a classified file
CanonicalDir(file) ==
  LET type == classify(file) IN
  IF type \in {"html", "config"} THEN <<>>
  ELSE IF type = "css" THEN <<"c", "s", "s">>
  ELSE IF type = "js" THEN <<"j", "s">>
  ELSE IF type = "images" THEN <<"a", "s", "s", "e", "t", "s", "/", "i", "m", "a", "g", "e", "s">>
  ELSE <<"a", "s", "s", "e", "t", "s", "/", "f", "o", "n", "t", "s">>

\* the unpacked tree of the scenario: index.html, app.js and style.css
ThreeFiles == {<<"/", "u", "/", "i", "n", "d", "e", "x", ".", "h", "t", "m", "l">>, <<"/", "u", "/", "a", "p", "p", ".", "j", "s">>, <<"/", "u", "/", "s", "t", "y", "l", "e", ".", "c", "s", "s">>}

\* C18: every file reorganizeResources has written went, under its own base
\* name, into the canonical directory of its category, and once the loop is
\* over every classified file whose task did not fail has been written; a
\* directory-mode run on index.html, app.js and style.css that lost no file
\* ends with index.html at the root, js/app.js and css/style.css at the
\* destination and a successful validation.
C18_CanonicalLayout ==
  probe.stage = "output" =>
    /\ \A w \in probe.writes :
         /\ classify(w[1]) # "other"
         /\ w[2] = RelJoin(CanonicalDir(w[1]), BaseName(w[1]))
    /\ Reorganized =>
         \A f \in probe.source :
           classify(f) # "other" /\ f \notin probe.skipped => \E w \in probe.writes : w[1] = f
    /\ probe.pc \in {"validate", "done", "failed"} /\ probe.validate # "none"
       /\ probe.source = ThreeFiles /\ probe.skipped = {} =>
         /\ DOMAIN probe.target.tree = {IndexHtml, <<"j", "s", "/", "a", "p", "p", ".", "j", "s">>, <<"c", "s", "s", "/", "s", "t", "y", "l", "e", ".", "c", "s", "s">>}
         /\ probe.validate = "ok"
         /\ probe.pc = "done"

C18_Witness ==
  /\ probe.stage = "output" /\ probe.pc = "done"
  /\ probe.source = ThreeFiles /\ probe.skipped = {}
  /\ probe.target.tree[<<"j", "s", "/", "a", "p", "p", ".", "j", "s">>] = <<"/", "u", "/", "a", "p", "p", ".", "j", "s">>
  /\ probe.target.tree[<<"c", "s", "s", "/", "s", "t", "y", "l", "e", ".", "c", "s", "s">>] = <<"/", "u", "/", "s", "t", "y", "l", "e", ".", "c", "s", "s">>
  /\ probe.validate = "ok"

\* C19: when the destination exists before a directory-mode run, the copy
\* starts only after the removal has left nothing at the destination, and a
\* copy that succeeded leaves there exactly the files of the reorganized
\* tree: no file that was there before remains.
C19_ReplaceNeverMerge ==
  probe.stage = "output" /\ probe.before.exists =>
    /\ probe.pc = "copy" => probe.target = Absent
    /\ probe.pc \in {"validate", "done"} =>
         /\ probe.target.tree = probe.out
         /\ \A p \in DOMAIN probe.target.tree : probe.target.tree[p] # Old

C19_Witness ==
  /\ probe.stage = "output" /\ probe.pc = "done"
  /\ OldTxt \in DOMAIN probe.before.tree /\ IndexHtml \in DOMAIN probe.before.tree
  /\ OldTxt \notin DOMAIN probe.target.tree
  /\ probe.target.tree[IndexHtml] = Generated

\* --------------------------------------------- validateFrontendPackage alone
\* The artifacts validateFrontendPackage can be called on: a path with
\* nothing at it, a directory, or a file that adm-zip can or cannot read.
ArtifactPaths == {<<"/", "o">>, <<"/", "o", ".", "z", "i", "p">>, <<"/", "a", ".", "Z", "I", "P">>, <<"/", "a", ".", "t", "x", "t">>, <<"/", "a", ".", "z", "i", "p", ".", "b", "a", "k">>}
EntryNames == {IndexHtml, <<"s", "u", "b", "/", "i", "n", "d", "e", "x", ".", "h", "t", "m", "l">>, <<"I", "N", "D", "E", "X", ".", "H", "T", "M", "L">>}

Artifacts ==
  {Artifact(FALSE, FALSE, path, {}, FALSE) : path \in ArtifactPaths}
  \cup {Artifact(TRUE, TRUE, path, names, FALSE) :
          path \in ArtifactPaths, names \in SUBSET EntryNames}
  \cup {Artifact(TRUE, FALSE, path, names, TRUE) :
          path \in ArtifactPaths, names \in SUBSET EntryNames}
  \cup {Artifact(TRUE, FALSE, path, {}, FALSE) : path \in ArtifactPaths}

NoResult == [success |-> FALSE, message |-> "pending"]

InitValidate ==
  /\ probe \in {[stage |-> "validate", artifact |-> a, settled |-> FALSE, result |-> NoResult] :
                  a \in Artifacts}
  /\ fileCache = <<>>
  /\ now = ClockStart
  /\ op = NoOp
  /\ EngineIdle

\* the promise validateFrontendPackage returned has resolved
ValidateFrontendPackage ==
  /\ probe.stage = "validate" /\ ~probe.settled
  /\ probe' = [probe EXCEPT !.settled = TRUE, !.result = validateFrontendPackage(probe.artifact)]
  /\ UNCHANGED <<cacheVars, engineVars>>

NextValidate == ValidateFrontendPackage

SpecValidate == InitValidate /\ [][NextValidate]_vars

\* a directory with index.html at its root
DirectoryWithEntry(a) == a.exists /\ a.isDirectory /\ IndexHtml \in a.names

\* a .zip archive with an entry named exactly index.html
ZipWithEntry(a) ==
  /\ a.exists /\ ~a.isDirectory /\ a.readable
  /\ ToLowerCase(ExtName(a.path)) = ExtZip
  /\ IndexHtml \in a.names

\* C20: validateFrontendPackage answers success exactly for a directory with
\* index.html at its root and for a .zip archive with an entry named exactly
\* index.html; every other artifact gets success false with a message.
C20_SuccessIffEntryDocument ==
  probe.stage = "validate" /\ probe.settled =>
    /\ probe.result.success <=>
         (DirectoryWithEntry(probe.artifact) \/ ZipWithEntry(probe.artifact))
    /\ ~probe.result.success => probe.result.message # "ok"

\* the files whose transformation or copy failed during reorganizeResources
FailedFiles == probe.degraded \cup probe.skipped

\* C24: a file whose transformation or copy failed during reorganizeResources
\* is skipped, no output file is written for it; the other files are still
\* processed and reorganizeResources resolves.
C24_FailedFileIsSkipped ==
  probe.stage = "output" =>
    /\ \A f \in FailedFiles : ~\E w \in probe.writes : w[1] = f
    /\ Reorganized =>
         \A f \in probe.source :
           classify(f) # "other" /\ f \notin FailedFiles => \E w \in probe.writes : w[1] = f

\* scanFrontendFiles has resolved
ScanSettled ==
  /\ probe.stage = "batches" /\ probe.job = "scan"
  /\ probe.frames[<<>>].state = "done"

\* neither the directory nor a directory above it failed to be read
Readable(dir) == \A j \in 0..Len(dir) : SubSeq(dir, 1, j) \notin probe.unreadable

\* C25: when the read of a directory fails during a scan, scanFrontendFiles
\* still resolves, and its result holds exactly once every regular file that
\* is not in the subtree of a directory whose read failed, in the bucket of
\* its category, and nothing of those subtrees.
C25_OnlyTheUnreadableSubtreeIsMissing ==
  ScanSettled =>
    \A type \in Buckets :
      /\ DOMAIN probe.files[type] =
           {id \in TreeFiles(probe.tree) :
              /\ CategoryOf(FullPath(probe.tree, id[1], id[2])) = type
              /\ Readable(id[1])}
      /\ \A id \in DOMAIN probe.files[type] : probe.files[type][id] = 1

\* a scan has resolved although one subdirectory could not be read: the files
\* of the root and of the other subdirectory are in the result
C25_Witness ==
  /\ ScanSettled
  /\ probe.tree.depth = 1 /\ probe.tree.subdirs = 2 /\ probe.tree.files = 2
  /\ Cardinality(probe.unreadable) = 1 /\ <<>> \notin probe.unreadable
  /\ \E id \in DOMAIN probe.files["html"] : id[1] = <<>>
  /\ \E id \in DOMAIN probe.files["html"] : id[1] # <<>>

\* ------------------------------------------ unpacking an installer container
\* unpackElectron on a .exe, .dmg, .deb or .rpm file, called directly or by
\* parsePackage (which has created the scratch directory), with the tools it
\* runs through execSync.  A tool exits with 0 ("ok"), exits non-zero
\* ("failed") or is not installed ("missing").
ToolStatuses == {"ok", "failed", "missing"}
InstallerExts == {ExtExe, ExtDmg, ExtDeb, ExtRpm}
Platforms == {"darwin", "linux", "win32"}

NoError == [step |-> "none", status |-> "ok"]
\* the error thrown by a step: execSync, fs-extra or the platform test
Failure(step, status) == [step |-> step, status |-> status]

NoMount == [exists |-> FALSE, mounted |-> FALSE, registered |-> FALSE, removal |-> "none"]

\* TempFileManager.registerTempFile
registerTempFile(tempFiles, filePath, time) ==
  Append(tempFiles, [path |-> filePath, created |-> time])

MountPoint == <<"d", "m", "g", "-", "m", "o", "u", "n", "t">>

InitInstaller ==
  /\ probe \in {[stage |-> "installer", pc |-> "new", platform |-> p, ext |-> e,
                 viaEngine |-> v, scratch |-> v, mount |-> NoMount, tempFiles |-> <<>>,
                 tools |-> <<>>, err |-> NoError, outcome |-> "pending",
                 dataTar |-> "unread", payload |-> FALSE] :
                  p \in Platforms, e \in InstallerExts, v \in BOOLEAN}
  /\ fileCache = <<>>
  /\ now = ClockStart
  /\ op = NoOp
  /\ EngineIdle

\* execSync(tool) has returned or thrown
Exec(pr, tool, status) ==
  [pr EXCEPT !.tools = Append(@, [tool |-> tool, status |-> status])]

\* the promise of unpack resolves
InstallerResolve(pr) == [pr EXCEPT !.outcome = "resolved", !.pc = "done"]

\* the promise of unpack rejects with the message of err; parsePackage then
\* runs its finally block, which awaits the removal of the scratch directory
InstallerReject(pr, err) ==
  [pr EXCEPT !.outcome = "rejected", !.err = err,
             !.pc = IF pr.viaEngine /\ pr.scratch THEN "cleanup" ELSE "done"]

\* a sh pipeline exits with the status of its last command
PipelineStatus(statuses) == statuses[Len(statuses)]

\* unpackDmg whose cleanup block runs only after a successful mount
unpackDmgFinallyOnlyWhenMounted(pr, err, detach) ==
  IF pr.mount.mounted
  THEN [Exec(pr, "hdiutil detach", detach) EXCEPT
          !.err = err, !.pc = "removeMount",
          !.mount.mounted = pr.mount.mounted /\ detach # "ok"]
  ELSE InstallerReject(pr, err)

\* unpackDmg lines 235-247, the finally block up to its await: the unmount is
\* run and its failure ignored, then the removal of the mount point is awaited
unpackDmgFinally(pr, err, detach) ==
  [Exec(pr, "hdiutil detach", detach) EXCEPT
     !.err = err, !.pc = "removeMount",
     !.mount.mounted = pr.mount.mounted /\ detach # "ok"]

\* unpack is called: unpackElectron dispatches on the extension; a .exe is
\* read with adm-zip at once, the others first await ensureDir(outputDir)
InstallerCall ==
  /\ probe.stage = "installer" /\ probe.pc = "new"
  /\ IF probe.ext = ExtExe
     THEN \/ probe' = InstallerResolve(probe)
          \/ probe' = InstallerReject(probe, Failure("adm-zip", "failed"))
     ELSE probe' = [probe EXCEPT !.pc = "ensureOut"]
  /\ UNCHANGED <<cacheVars, engineVars>>

\* ensureDir(outputDir) has settled: unpackDmg goes on to the mount point,
\* unpackLinuxPackage runs ar, or rpm2cpio piped into cpio
InstallerEnsureOutDone ==
  /\ probe.stage = "installer" /\ probe.pc = "ensureOut"
  /\ \/ probe' = InstallerReject(probe, Failure("ensureDir", "failed"))
     \/ /\ probe.ext = ExtDmg
        /\ probe' = IF probe.platform = "darwin" THEN [probe EXCEPT !.pc = "ensureMount"]
                    ELSE InstallerReject(probe, Failure("platform", "missing"))
     \/ /\ probe.ext = ExtDeb
        /\ IF probe.platform \in {"linux", "darwin"}
           THEN \E ar \in ToolStatuses :
                  probe' = IF ar = "ok" THEN [Exec(probe, "ar", ar) EXCEPT !.pc = "debReaddir"]
                           ELSE InstallerReject(Exec(probe, "ar", ar), Failure("ar", ar))
           ELSE probe' = InstallerReject(probe, Failure("platform", "missing"))
     \/ /\ probe.ext = ExtRpm
        /\ IF probe.platform \in {"linux", "darwin"}
           THEN \E rpm2cpio \in ToolStatuses, cpio \in ToolStatuses :
                  LET ran == Exec(Exec(probe, "rpm2cpio", rpm2cpio), "cpio", cpio)
                      status == PipelineStatus(<<rpm2cpio, cpio>>)
                  IN probe' = IF status = "ok" THEN InstallerResolve(ran)
                              ELSE InstallerReject(ran, Failure("cpio", status))
           ELSE probe' = InstallerReject(probe, Failure("platform", "missing"))
  /\ UNCHANGED <<cacheVars, engineVars>>

\* unpackDmg: ensureDir(mountPoint) has settled; the mount point is registered
\* and hdiutil attach is run; then readdir is awaited, or the finally block runs
InstallerEnsureMountDone ==
  /\ probe.stage = "installer" /\ probe.pc = "ensureMount"
  /\ \/ probe' = InstallerReject(probe, Failure("ensureDir", "failed"))
     \/ \E attach \in ToolStatuses, detach \in ToolStatuses :
          LET made == [probe EXCEPT !.mount = [exists |-> TRUE, mounted |-> FALSE,
                                               registered |-> TRUE, removal |-> "none"],
                                    !.tempFiles = registerTempFile(@, MountPoint, now)]
              ran == Exec(made, "hdiutil attach", attach)
          IN probe' = IF attach = "ok"
                      THEN [ran EXCEPT !.mount.mounted = TRUE, !.pc = "copy"]
                      ELSE unpackDmgFinally(ran, Failure("hdiutil attach", attach), detach)
  /\ UNCHANGED <<cacheVars, engineVars>>

\* unpackDmg: the copy of the mounted tree has settled; the finally block runs
InstallerCopyDone ==
  /\ probe.stage = "installer" /\ probe.pc = "copy"
  /\ \E copied \in BOOLEAN, detach \in ToolStatuses :
       probe' = unpackDmgFinally(probe, IF copied THEN NoError ELSE Failure("copy", "failed"),
                                 detach)
  /\ UNCHANGED <<cacheVars, engineVars>>

\* unpackDmg: fs.remove(mountPoint) has settled (its failure is logged); the
\* pending error, if any, is rethrown
InstallerRemoveMountDone ==
  /\ probe.stage = "installer" /\ probe.pc = "removeMount"
  /\ \E removed \in BOOLEAN :
       LET left == [probe EXCEPT !.mount.exists = ~removed,
                                 !.mount.mounted = @ /\ ~removed,
                                 !.mount.removal = IF removed THEN "ok" ELSE "failed"]
       IN probe' = IF probe.err = NoError THEN InstallerResolve(left)
                   ELSE InstallerReject(left, probe.err)
  /\ UNCHANGED <<cacheVars, engineVars>>

\* what debContents.find(file => file.startsWith('data.tar.')) returns: nothing,
\* or a member compressed with gzip, xz or something else (zstd, bzip2)
DataMembers == {"none", "gz", "xz", "zst"}

\* unpackLinuxPackage (.deb): readdir has settled; a data member ending in .gz
\* or .xz is extracted with tar, any other one is not; with a data member the
\* removals of the members of the archive are awaited, without one the
\* function returns
InstallerDebReaddirDone ==
  /\ probe.stage = "installer" /\ probe.pc = "debReaddir"
  /\ \/ probe' = InstallerReject(probe, Failure("readdir", "failed"))
     \/ \E dataTar \in DataMembers, tar \in ToolStatuses :
          LET found == [probe EXCEPT !.dataTar = dataTar] IN
          probe' = IF dataTar = "none" THEN InstallerResolve(found)
                   ELSE IF dataTar \notin {"gz", "xz"} THEN [found EXCEPT !.pc = "debClean"]
                   ELSE IF tar = "ok"
                   THEN [Exec(found, "tar", tar) EXCEPT !.pc = "debClean", !.payload = TRUE]
                   ELSE InstallerReject(Exec(found, "tar", tar), Failure("tar", tar))
  /\ UNCHANGED <<cacheVars, engineVars>>

\* unpackLinuxPackage (.deb): the removals of the members have settled
InstallerDebCleanDone ==
  /\ probe.stage = "installer" /\ probe.pc = "debClean"
  /\ \/ probe' = InstallerResolve(probe)
     \/ probe' = InstallerReject(probe, Failure("remove", "failed"))
  /\ UNCHANGED <<cacheVars, engineVars>>

\* parsePackage: _cleanupTempDir has settled (Platform.remove swallows a
\* failure) and the promise of parsePackage rejects
InstallerCleanupDone ==
  /\ probe.stage = "installer" /\ probe.pc = "cleanup"
  /\ \E removed \in BOOLEAN : probe' = [probe EXCEPT !.pc = "done", !.scratch = ~removed]
  /\ UNCHANGED <<cacheVars, engineVars>>

NextInstaller ==
  \/ InstallerCall
  \/ InstallerEnsureOutDone
  \/ InstallerEnsureMountDone
  \/ InstallerCopyDone
  \/ InstallerRemoveMountDone
  \/ InstallerDebReaddirDone
  \/ InstallerDebCleanDone
  \/ InstallerCleanupDone

SpecInstaller == InitInstaller /\ [][NextInstaller]_vars

\* the tools that were run and did not exit with 0
FailedTools == {i \in DOMAIN probe.tools : probe.tools[i].status # "ok"}

\* C21: when a tool run while unpacking an installer container is missing or
\* exits non-zero, or the platform does not provide it, unpack rejects with
\* the diagnostic of that tool; no tool is run a second time; and when the
\* call came through parsePackage the scratch directory is gone once
\* parsePackage has settled.
C21_ToolFailureRejectsAndScratchIsGone ==
  probe.stage = "installer" =>
    /\ probe.outcome # "pending" /\ FailedTools # {} =>
         /\ probe.outcome = "rejected"
         /\ \E i \in FailedTools : probe.err = Failure(probe.tools[i].tool, probe.tools[i].status)
    /\ \A i, j \in DOMAIN probe.tools : probe.tools[i].tool = probe.tools[j].tool => i = j
    /\ probe.viaEngine /\ probe.pc = "done" /\ probe.outcome = "rejected" => ~probe.scratch

\* the tool has been run
Ran(tool) == \E i \in DOMAIN probe.tools : probe.tools[i].tool = tool

\* the mount point is in the list of the tracker
MountPointTracked == \E i \in DOMAIN probe.tempFiles : probe.tempFiles[i].path = MountPoint

\* C23 as stated: the mount point is registered with the tracker before the
\* mount is attempted, and on every exit path after that an unmount has been
\* attempted and the mount-point directory is removed when unpackDmg settles;
\* a copy failure is propagated.
C23_UnmountedAndRemovedOnEveryPath ==
  probe.stage = "installer" =>
    /\ Ran("hdiutil attach") => MountPointTracked
    /\ probe.outcome # "pending" /\ probe.mount.registered =>
         Ran("hdiutil detach") /\ ~probe.mount.exists
    /\ probe.outcome # "pending" /\ probe.err = Failure("copy", "failed") =>
         probe.outcome = "rejected"

\* C23, amended: the mount point is registered with the tracker before the
\* mount is attempted, and on every exit path after that an unmount and the
\* removal of the mount-point directory have been attempted when unpackDmg
\* settles; the directory is still there only if that removal failed, and it
\* is then still in the tracker's list; a copy failure is propagated.
C23_UnmountAndRemovalAttemptedOnEveryPath ==
  probe.stage = "installer" =>
    /\ Ran("hdiutil attach") => MountPointTracked
    /\ probe.outcome # "pending" /\ probe.mount.registered =>
         /\ Ran("hdiutil detach")
         /\ probe.mount.removal # "none"
         /\ probe.mount.exists <=> probe.mount.removal = "failed"
         /\ MountPointTracked
    /\ probe.outcome # "pending" /\ probe.err = Failure("copy", "failed") =>
         probe.outcome = "rejected"

\* the copy of a mounted image failed: the image was unmounted, the mount point
\* removed and unpackDmg rejected with the copy failure
C23_Witness ==
  /\ probe.stage = "installer" /\ probe.outcome = "rejected"
  /\ probe.err = Failure("copy", "failed")
  /\ probe.tools = << [tool |-> "hdiutil attach", status |-> "ok"],
                      [tool |-> "hdiutil detach", status |-> "ok"] >>
  /\ probe.mount.removal = "ok" /\ ~probe.mount.exists

\* invocation q is between its _initTempDir and its finally block: it reads
\* and writes the scratch directory
UsingScratch(q) ==
  pc[q] \in {"unpack", "scan", "reorganize", "decompile", "write", "entry", "package"}

\* C22: when two parsePackage invocations overlap, neither deletes the scratch
\* directory the other is still using: a step of one invocation that removes
\* the scratch directory is taken only while no other invocation uses it.
C22_ScratchIsExclusive ==
  [][\A r \in Runs :
       pc'[r] # pc[r] /\ tempDirExists /\ ~tempDirExists' =>
         \A q \in Runs \ {r} : ~UsingScratch(q)]_vars

\* ------------------------------------------------ the temporary-file tracker
\* TempFileManager with the paths the program registers: the scratch directory
\* of parsePackage (the same path for every run) and a mount point of
\* unpackDmg.  Time is counted in cleanup intervals (24 hours); the disk is
\* the function from the paths that exist to their modification time.
MaxTempFileAge == 7
SweepAge == 1
TempDir == <<"f", "a", "n", "-", "t", "e", "m", "p">>

\* registrations, timer ticks and manual cleanups in one behaviour
MaxRegistrations == 3
MaxPasses == 2
MaxManual == 1

NoPass == [kind |-> "none", pc |-> "idle", now |-> 0, i |-> 0, len |-> 0, clean |-> <<>>]

TrackerIdle(list, disk) ==
  [stage |-> "tracker", tempFiles |-> list, disk |-> disk, active |-> FALSE,
   regs |-> 0, ticks |-> 0, manuals |-> 0, pass |-> NoPass, failed |-> {}, fresh |-> {},
   during |-> {}, listed |-> {}]

\* the tracker as constructed, or as it is a maximum age later when an earlier
\* run has registered the scratch directory, a mount point, or both, and the
\* mount point may have been left on disk
InitTracker ==
  /\ \E aged \in BOOLEAN :
       /\ now = IF aged THEN ClockStart + MaxTempFileAge ELSE ClockStart
       /\ probe \in
            IF aged
            THEN {TrackerIdle(list, disk) :
                    list \in {<<[path |-> TempDir, created |-> ClockStart]>>,
                              <<[path |-> MountPoint, created |-> ClockStart]>>,
                              <<[path |-> TempDir, created |-> ClockStart],
                                [path |-> MountPoint, created |-> ClockStart]>>},
                    disk \in {<<>>, [p \in {MountPoint} |-> ClockStart]}}
            ELSE {TrackerIdle(<<>>, <<>>)}
  /\ fileCache = <<>>
  /\ op = NoOp
  /\ EngineIdle

\* fs.remove / ensureDir on the disk
DiskRemove(disk, path) == [p \in DOMAIN disk \ {path} |-> disk[p]]
DiskCreate(disk, path, time) == [p \in DOMAIN disk \cup {path} |-> IF p = path THEN time ELSE disk[p]]

\* a path is registered at the present time
Register(pr, path) ==
  LET entry == [path |-> path, created |-> now] IN
  [pr EXCEPT !.tempFiles = registerTempFile(@, path, now),
             !.regs = @ + 1,
             !.fresh = @ \cup {path},
             !.during = IF pr.pass.pc = "idle" THEN @ ELSE @ \cup {entry}]

\* cleanupTempFiles that never updates the list
DropExpiredNever(tempFiles, time) == tempFiles

\* cleanupTempFiles lines 394-396: the entries not older than the maximum age
\* are kept
DropExpired(tempFiles, time) ==
  SelectSeq(tempFiles, LAMBDA file : time - file.created <= MaxTempFileAge)

\* cleanupTempFiles lines 374-376: filesToClean
FilesToClean(tempFiles, time) ==
  SelectSeq(tempFiles, LAMBDA file : time - file.created > MaxTempFileAge)

\* manualCleanup whose loop ends where the list ended when the loop began
LoopEndAtStart(pr) == IF pr.pass.kind = "manual" THEN pr.pass.len ELSE Len(pr.pass.clean)

\* where the for-of loop of the pass ends: the array iterator reads the length
\* at every step, so the loop of manualCleanup visits the entries pushed
\* while it awaits
LoopEnd(pr) == IF pr.pass.kind = "manual" THEN Len(pr.tempFiles) ELSE Len(pr.pass.clean)

\* the list the loop of the pass iterates: filesToClean, or tempFiles itself
LoopList(pr) == IF pr.pass.kind = "manual" THEN pr.tempFiles ELSE pr.pass.clean

\* the loop runs from entry i on up to its next await, the removal of the
\* first path that exists; at its end the list is updated (lines 394-396,
\* 470) and cleanupSystemTempFiles awaits readdir
Visit(pr, i) ==
  LET here == {k \in i..LoopEnd(pr) : LoopList(pr)[k].path \in DOMAIN pr.disk} IN
  IF here # {}
  THEN [pr EXCEPT !.pass.pc = "remove", !.pass.i = CHOOSE k \in here : \A j \in here : k <= j]
  ELSE [pr EXCEPT !.pass.pc = "sweep",
                  !.tempFiles = IF pr.pass.kind = "manual" THEN <<>>
                                ELSE IF pr.pass.clean = <<>> THEN @
                                ELSE DropExpired(@, pr.pass.now)]

\* a pass begins and runs up to its first await
PassBegin(pr, kind, time) ==
  Visit([pr EXCEPT !.pass = [kind |-> kind, pc |-> "begin", now |-> time, i |-> 1,
                             len |-> Len(pr.tempFiles),
                             clean |-> IF kind = "manual" THEN <<>>
                                       ELSE FilesToClean(pr.tempFiles, time)],
                   !.failed = {}, !.fresh = {}, !.during = {},
                   !.listed = {pr.tempFiles[i] : i \in DOMAIN pr.tempFiles}], 1)

\* _initTempDir lines 233-237 of a parsePackage run: the scratch directory is
\* created anew and registered
TrackerRunInit ==
  /\ probe.stage = "tracker" /\ ~probe.active /\ probe.regs < MaxRegistrations
  /\ probe' = [Register(probe, TempDir) EXCEPT !.active = TRUE,
                                               !.disk = DiskCreate(@, TempDir, now)]
  /\ UNCHANGED <<cacheVars, engineVars>>

\* unpackDmg of the run: the mount point is created and registered
TrackerRegisterMount ==
  /\ probe.stage = "tracker" /\ probe.active /\ probe.regs < MaxRegistrations
  /\ MountPoint \notin DOMAIN probe.disk
  /\ probe' = [Register(probe, MountPoint) EXCEPT !.disk = DiskCreate(@, MountPoint, now)]
  /\ UNCHANGED <<cacheVars, engineVars>>

\* the run settles: its finally block has removed the scratch directory, and
\* unpackDmg the mount point, unless the removal failed
TrackerRunFinish ==
  /\ probe.stage = "tracker" /\ probe.active
  /\ \E left \in SUBSET (DOMAIN probe.disk) :
       probe' = [probe EXCEPT !.active = FALSE,
                              !.disk = [p \in left |-> probe.disk[p]]]
  /\ UNCHANGED <<cacheVars, engineVars>>

\* the interval timer fires, a cleanup interval after the last time:
\* cleanupTempFiles
TrackerTimerTick ==
  /\ probe.stage = "tracker" /\ probe.pass.pc = "idle" /\ probe.ticks < MaxPasses
  /\ now' = now + 1
  /\ probe' = PassBegin([probe EXCEPT !.ticks = @ + 1], "age", now + 1)
  /\ UNCHANGED <<fileCache, op, engineVars>>

\* manualCleanup is called
TrackerManualCleanup ==
  /\ probe.stage = "tracker" /\ probe.pass.pc = "idle" /\ probe.manuals < MaxManual
  /\ probe' = PassBegin([probe EXCEPT !.manuals = @ + 1], "manual", now)
  /\ UNCHANGED <<cacheVars, engineVars>>

\* the removal the loop awaits has settled (a failure is logged) and the loop
\* goes on
TrackerRemoveDone ==
  /\ probe.stage = "tracker" /\ probe.pass.pc = "remove"
  /\ LET path == LoopList(probe)[probe.pass.i].path IN
     \E removed \in BOOLEAN :
       probe' = Visit([probe EXCEPT
                         !.disk = IF removed THEN DiskRemove(@, path) ELSE @,
                         !.failed = IF removed \/ path \notin DOMAIN probe.disk THEN @
                                    ELSE @ \cup {path}],
                      probe.pass.i + 1)
  /\ UNCHANGED <<cacheVars, engineVars>>

\* cleanupSystemTempFiles has gone through the system temporary directory:
\* every fan-temp* and dmg-mount-* entry modified more than 24 hours ago is
\* removed, unless its removal fails
TrackerSweepDone ==
  /\ probe.stage = "tracker" /\ probe.pass.pc = "sweep"
  /\ LET old == {p \in DOMAIN probe.disk : now - probe.disk[p] > SweepAge} IN
     \E gone \in SUBSET old :
       probe' = [probe EXCEPT !.pass.pc = "idle",
                              !.disk = [p \in DOMAIN @ \ gone |-> @[p]],
                              !.failed = @ \cup (old \ gone)]
  /\ UNCHANGED <<cacheVars, engineVars>>

NextTracker ==
  \/ TrackerRunInit
  \/ TrackerRegisterMount
  \/ TrackerRunFinish
  \/ TrackerTimerTick
  \/ TrackerManualCleanup
  \/ TrackerRemoveDone
  \/ TrackerSweepDone

SpecTracker == InitTracker /\ [][NextTracker]_vars

\* C26: a cleanup pass of the timer never deletes the scratch directory of a
\* parsePackage run that is in progress, even when the same path was
\* registered by an earlier run more than the maximum age ago.
C26_CleanupSparesTheActiveScratch ==
  [][(/\ probe.stage = "tracker"
      /\ probe.pass.kind = "age" /\ probe.pass.pc # "idle"
      /\ probe.active /\ probe'.active
      /\ TempDir \in DOMAIN probe.disk)
     => TempDir \in DOMAIN probe'.disk]_vars

\* the last pass was one of the timer and has finished
AgePassDone == probe.stage = "tracker" /\ probe.pass.kind = "age" /\ probe.pass.pc = "idle"

\* the entries of the list that were older than the maximum age when the last
\* pass began
Expired == {h \in probe.listed : probe.pass.now - h.created > MaxTempFileAge}

InList(h) == \E i \in DOMAIN probe.tempFiles : probe.tempFiles[i] = h

\* C27 as stated: when a pass of the timer has finished, every registered
\* path that was older than the maximum age when it began has been removed
\* from disk (unless it was created anew since) and dropped from the list.
C27_ExpiredPathsAreRemovedAndDropped ==
  AgePassDone =>
    \A h \in Expired :
      /\ ~InList(h)
      /\ h.path \in DOMAIN probe.disk => h.path \in probe.fresh

\* C27, amended: when a pass of the timer has finished, every registered path
\* that was older than the maximum age when it began has been dropped from
\* the list, and it is still on disk only if its removal failed during the
\* pass or it was created anew since the pass began.
C27_ExpiredPathsAreDroppedAndRemovalAttempted ==
  AgePassDone =>
    \A h \in Expired :
      /\ ~InList(h)
      /\ h.path \in DOMAIN probe.disk => h.path \in probe.fresh \cup probe.failed

\* a pass of the timer has dropped a mount point registered more than the
\* maximum age ago and removed it from disk
C27_Witness ==
  /\ AgePassDone
  /\ \E h \in Expired : h.path = MountPoint
  /\ probe.failed = {} /\ probe.fresh = {}
  /\ probe.disk = <<>> /\ probe.tempFiles = <<>>
  /\ probe.ticks = 1

\* a pass has finished
PassDone == probe.stage = "tracker" /\ probe.pass.kind # "none" /\ probe.pass.pc = "idle"

InitInterleaved ==
  /\ fileCache \in {Prefill(n, 1, "asc") : n \in CacheFill}
  /\ now = ClockStart
  /\ op = NoOp
  /\ probe = NoProbe
  /\ EngineIdle

SpecInterleaved == InitInterleaved /\ [][NextCache]_vars

\* the entries of the cache before the step that the step removed, the entry
\* under key k apart
Removed(k) ==
  {i \in DOMAIN fileCache :
     fileCache[i].key # k /\ \A j \in DOMAIN fileCache' : fileCache'[j] # fileCache[i]}
\* the step invented or altered no entry other than the one under key k
OthersUntouched(k) ==
  \A j \in DOMAIN fileCache' :
    fileCache'[j].key # k => \E i \in DOMAIN fileCache : fileCache[i] = fileCache'[j]

batchSize == 10
\* the largest number of entries of an archive
MaxZipEntries == 21
\* which entries of an archive of n entries are directories
ZipShapes == {"files", "mixed", "directories"}
ZipEntries(n, shape) ==
  [k \in 1..n |-> [isDirectory |-> CASE shape = "files" -> FALSE
                                     [] shape = "mixed" -> k % 3 = 1
                                     [] shape = "directories" -> TRUE]]

\* Math.round((processedEntries / totalEntries) * 30) + 10; up to 40 entries
\* the double product is the exact one wherever it is a half
Progress(processedEntries, totalEntries) ==
  (60 * processedEntries + totalEntries) \div (2 * totalEntries) + 10

InitZip ==
  /\ probe \in {[stage |-> "zip", pc |-> "call", entries |-> ZipEntries(n, shape),
                 isLargeFile |-> large, onProgress |-> callback, i |-> 0,
                 processedEntries |-> 0, extracted |-> {}, events |-> <<>>, yields |-> 0] :
                  n \in 0..MaxZipEntries, shape \in ZipShapes,
                  large \in BOOLEAN, callback \in BOOLEAN}
  /\ fileCache = <<>>
  /\ now = ClockStart
  /\ op = NoOp
  /\ EngineIdle

\* the entries of entries.slice(i, i + batchSize), as indexes from 1
Batch(pr, i) ==
  {k \in DOMAIN pr.entries : i < k /\ k <= i + batchSize}

\* one pass of the body of the for loop over the batches: the files of the
\* batch are extracted in order and a progress event follows each of them; an
\* extractEntryTo that throws (at entry failAt, 0 for none) ends unpackZip,
\* else the pass ends at the timer it awaits
zipBatch(pr, i, failAt) ==
  LET files == {k \in Batch(pr, i) :
                  ~pr.entries[k].isDirectory /\ (failAt = 0 \/ k < failAt)}
  IN [pr EXCEPT
        !.pc = IF failAt = 0 THEN "yield" ELSE "failed",
        !.i = i,
        !.extracted = @ \cup files,
        !.processedEntries = @ + Cardinality(files),
        !.events = @ \o [j \in 1..Cardinality(files) |->
                           Progress(pr.processedEntries + j, Len(pr.entries))]]

\* the entries of batch i whose extraction can throw
Failing(pr, i) == {0} \cup {k \in Batch(pr, i) : ~pr.entries[k].isDirectory}

\* unpackZip up to its first await or its return: the batched branch, taken
\* for a large file with a callback, runs the first batch; every other call
\* runs zip.extractAllTo, which writes every entry or throws after some of them
ZipCall ==
  /\ probe.stage = "zip"
  /\ probe.pc = "call"
  /\ IF probe.isLargeFile /\ probe.onProgress
     THEN IF Len(probe.entries) = 0
          THEN probe' = [probe EXCEPT !.pc = "done"]
          ELSE \E failAt \in Failing(probe, 0) : probe' = zipBatch(probe, 0, failAt)
     ELSE \E written \in 0..Len(probe.entries) :
            probe' = [probe EXCEPT
                        !.pc = IF written = Len(probe.entries) THEN "done" ELSE "failed",
                        !.extracted = 1..written]
  /\ UNCHANGED <<cacheVars, engineVars>>

\* the 10 ms timer of the batched branch fires: the loop goes on with the
\* next batch, or unpackZip returns after the last one
ZipYieldDone ==
  /\ probe.stage = "zip"
  /\ probe.pc = "yield"
  /\ LET i == probe.i + batchSize
         resumed == [probe EXCEPT !.yields = @ + 1]
     IN IF i < Len(probe.entries)
        THEN \E failAt \in Failing(probe, i) : probe' = zipBatch(resumed, i, failAt)
        ELSE probe' = [resumed EXCEPT !.pc = "done"]
  /\ UNCHANGED <<cacheVars, engineVars>>

NextZip ==
  \/ ZipCall
  \/ ZipYieldDone

SpecZip == InitZip /\ [][NextZip]_vars

\* ------------------------------------------------------ claims: unpackZip
\* C30: whenever a plain zip is unpacked with isLargeFile = true, with or
\* without a progress callback, no more than batchSize entries are extracted
\* between two yields to the event loop, and every progress value reported
\* while unpacking lies in 10..40 and is not below the value reported before it.
C30_LargeZipIsExtractedInBatches ==
  /\ [][(probe.stage = "zip" /\ probe.isLargeFile)
          => Cardinality(probe'.extracted \ probe.extracted) <= batchSize]_vars
  /\ [](probe.stage = "zip" =>
          \A j \in DOMAIN probe.events :
            /\ probe.events[j] \in 10..40
            /\ j > 1 => probe.events[j - 1] <= probe.events[j])

\* the part of C30 the batched branch keeps: with a callback, a large zip is
\* extracted in steps of at most batchSize entries, one yield after each batch,
\* and the progress values lie in 10..40 and never decrease
ZipBatchedWithCallback ==
  /\ [][(probe.stage = "zip" /\ probe.isLargeFile /\ probe.onProgress)
          => Cardinality(probe'.extracted \ probe.extracted) <= batchSize]_vars
  /\ [](probe.stage = "zip" =>
          /\ \A j \in DOMAIN probe.events :
               /\ probe.events[j] \in 10..40
               /\ j > 1 => probe.events[j - 1] <= probe.events[j]
          /\ probe.pc = "done" /\ probe.isLargeFile /\ probe.onProgress
               => probe.yields = (Len(probe.entries) + batchSize - 1) \div batchSize)

\* ------------------------------------------- detectFramework: states and steps
\* the frameworks in the order detectFramework tests them
Frameworks == <<"vue", "react", "angular">>
FrameworkNames == {Frameworks[k] : k \in DOMAIN Frameworks}
\* the first framework, in the order of the tests, that is in the set s
FirstOf(s) ==
  IF s = {} THEN "unknown"
  ELSE Frameworks[CHOOSE k \in DOMAIN Frameworks :
                    Frameworks[k] \in s /\ \A j \in 1..(k - 1) : Frameworks[j] \notin s]

\* the largest number of JS files of the scanned tree
MaxJsFiles == 2
\* a JS file: whether fs.readFile succeeds, and the frameworks whose import
\* signature its content includes
JsFiles == {[readable |-> FALSE, has |-> {}]}
             \cup [readable : {TRUE}, has : SUBSET FrameworkNames]
JsLists == UNION {[1..n -> JsFiles] : n \in 0..MaxJsFiles}
\* package.json: absent, not parseable, or declaring packages with version
\* strings under dependencies and devDependencies
Manifests ==
  {[kind |-> "absent"], [kind |-> "malformed"]}
    \cup {[kind |-> "json", dependencies |-> d, devDependencies |-> v] :
            d \in SUBSET FrameworkNames, v \in SUBSET FrameworkNames}

InitFramework ==
  /\ probe \in {[stage |-> "framework", pc |-> "manifest", manifest |-> m, js |-> files,
                 i |-> 1, framework |-> "none", entry |-> "none"] :
                  m \in Manifests, files \in JsLists}
  /\ fileCache = <<>>
  /\ now = ClockStart
  /\ op = NoOp
  /\ EngineIdle

\* detectFramework returns to reorganizeResources, which goes on to write the
\* entry file once the files are processed
detectReturn(pr, framework) == [pr EXCEPT !.pc = "entry", !.framework = framework]
\* the manifest test: fs.readJson of an existing package.json rejects when the
\* file does not parse, and the rejection leaves detectFramework and, through
\* its catch, reorganizeResources; the merged dependencies are tested in order
manifestRead(pr) ==
  IF pr.manifest.kind = "malformed" THEN [pr EXCEPT !.pc = "detectFailed"]
  ELSE IF pr.manifest.kind = "json"
            /\ FirstOf(pr.manifest.dependencies \cup pr.manifest.devDependencies) # "unknown"
  THEN detectReturn(pr, FirstOf(pr.manifest.dependencies \cup pr.manifest.devDependencies))
  ELSE [pr EXCEPT !.pc = "files"]

FrameworkManifestDone ==
  /\ probe.stage = "framework"
  /\ probe.pc = "manifest"
  /\ probe' = manifestRead(probe)
  /\ UNCHANGED <<cacheVars, engineVars>>

\* one turn of the loop over files.js: a read error is ignored
FrameworkReadDone ==
  /\ probe.stage = "framework"
  /\ probe.pc = "files"
  /\ probe' = IF probe.i > Len(probe.js) THEN detectReturn(probe, "unknown")
              ELSE IF probe.js[probe.i].readable /\ probe.js[probe.i].has # {}
              THEN detectReturn(probe, FirstOf(probe.js[probe.i].has))
              ELSE [probe EXCEPT !.i = @ + 1]
  /\ UNCHANGED <<cacheVars, engineVars>>

\* the page generateEntryFile writes for a framework
EntryPage(framework) == IF framework \in {"vue", "react"} THEN framework ELSE "generic"

FrameworkEntryDone ==
  /\ probe.stage = "framework"
  /\ probe.pc = "entry"
  /\ \E ok \in BOOLEAN :
       probe' = IF ok THEN [probe EXCEPT !.pc = "done", !.entry = EntryPage(probe.framework)]
                ELSE [probe EXCEPT !.pc = "writeFailed"]
  /\ UNCHANGED <<cacheVars, engineVars>>

NextFramework ==
  \/ FrameworkManifestDone
  \/ FrameworkReadDone
  \/ FrameworkEntryDone

SpecFramework == InitFramework /\ [][NextFramework]_vars

\* ------------------------------------------------ claims: detectFramework
\* what the claim says detectFramework returns
Declared == IF probe.manifest.kind = "json"
            THEN probe.manifest.dependencies \cup probe.manifest.devDependencies ELSE {}
Signed == {k \in DOMAIN probe.js : probe.js[k].readable /\ probe.js[k].has # {}}
ClaimedFramework ==
  IF Declared # {} THEN FirstOf(Declared)
  ELSE IF Signed # {} THEN FirstOf(probe.js[CHOOSE k \in Signed : \A j \in Signed : k <= j].has)
  ELSE "unknown"

\* C31: detectFramework never fails: it returns the first of vue, react,
\* angular the manifest declares; with the manifest absent or naming none, the
\* framework of the first JS file in scan order that carries a signature; else
\* unknown, for which the generic entry page is written.
C31_DetectionIsBestEffort ==
  probe.stage = "framework" =>
    /\ probe.pc # "detectFailed"
    /\ probe.pc \in {"entry", "done"} => probe.framework = ClaimedFramework
    /\ probe.pc = "done" /\ probe.framework = "unknown" => probe.entry = "generic"

\* what holds of detectFramework when package.json, if present, parses
FrameworkWhenManifestParses ==
  (probe.stage = "framework" /\ probe.manifest.kind # "malformed") =>
    /\ probe.pc # "detectFailed"
    /\ probe.pc \in {"entry", "done"} => probe.framework = ClaimedFramework
    /\ probe.pc = "done" /\ probe.framework = "unknown" => probe.entry = "generic"

\* ---------------------------------------------------- claims: isSupported
\* C32: isSupported(path) is true exactly for the paths unpack does not reject
\* as an unsupported format.
C32_SupportedIffUnpackAccepts ==
  (probe.stage = "unpacked" /\ probe.asked)
    => (probe.supported <=> probe.outcome # "unsupported")

\* what holds instead: isSupported is true exactly for the paths of the zip,
\* installer and other families, and unpack rejects the other family
SupportedIsTheThreeFamilies ==
  (probe.stage = "unpacked" /\ probe.asked)
    => /\ probe.supported <=> EndsWithAny(probe.path, ZipFamily \cup InstallerFamily \cup OtherFamily)
       /\ probe.outcome = "unsupported"
            <=> ~EndsWithAny(probe.path, ZipFamily \cup InstallerFamily)

\* ------------------------------------------- claims: overwritten output files
\* C33: reorganizeResources overwrites no output file it produced from the
\* source tree: the synthesized entry file is written only when no source file
\* was placed at index.html of the output root, two source files never share
\* an output path, and so the files in the recognized categories' places are
\* as many as the files written.
C33_NoProducedFileIsOverwritten ==
  probe.stage = "output" =>
    /\ \A v, w \in probe.writes : v[2] = w[2] => v[1] = w[1]
    /\ \A w \in probe.writes : probe.out[w[2]] \in {w[1], Raw(w[1]), Empty}
    /\ Reorganized =>
         Cardinality(DOMAIN probe.out \ {p \in {IndexHtml} : probe.out[p] = Generated})
           = Cardinality(probe.writes)

\* --------------------------------------- the progress events of one run
\* the containers by the events their extractor emits: a zip below and above
\* the large-file limit, an asar, an installer (.exe, .dmg, .deb, .rpm)
Containers == {"zip", "largeZip", "asar", "installer"}
\* the entries of a large zip: one batch, or one more than a batch
LargeZipEntries == {1, batchSize + 1}
OutputFormats == {"folder", "zip"}
\* the files the scan finds: html, js (none, or more than one batch of code
\* files), images, and files of no category
MaxLoad == 6
Loads == [html : 0..1, js : {0, MaxLoad}, images : 0..1, other : 0..1]
LoadCount(load, type) ==
  CASE type = "html" -> load.html
    [] type = "js" -> load.js
    [] type = "images" -> load.images
    [] OTHER -> 0
\* Object.values(files).flat().length
TotalFiles(load) == load.html + load.js + load.images + load.other

\* 60 + Math.round((processedFiles / totalFiles) * 20)
ReorganizeProgress(processedFiles, totalFiles) ==
  60 + (40 * processedFiles + totalFiles) \div (2 * totalFiles)

InitProgress ==
  /\ probe \in {[stage |-> "progress", pc |-> "start", container |-> c, entries |-> n,
                 format |-> f, load |-> load, category |-> 0, i |-> 0, processedFiles |-> 0,
                 events |-> <<>>] :
                  c \in Containers, n \in LargeZipEntries, f \in OutputFormats, load \in Loads}
  /\ fileCache = <<>>
  /\ now = ClockStart
  /\ op = NoOp
  /\ EngineIdle

EmitAll(pr, evs) == [pr EXCEPT !.events = @ \o evs]
\* the catch block of parsePackage
ProgressThrow(pr) == [EmitAll(pr, <<Event("error", 0)>>) EXCEPT !.pc = "failed"]

\* the events of the batch of a large zip that starts after entry i
UnpackingBatch(pr, i) ==
  [j \in 1..(IF pr.entries - i < batchSize THEN pr.entries - i ELSE batchSize) |->
     Event("unpacking", Progress(i + j, pr.entries))]

\* unpack has returned: parsePackage announces the scan and awaits it
UnpackReturned(pr) == [EmitAll(pr, <<Event("scanning", 40)>>) EXCEPT !.pc = "scan"]

\* engine.js lines 139-143 and the extractor up to its first await
ProgressUnpackCall ==
  /\ probe.stage = "progress" /\ probe.pc = "start"
  /\ LET begun == EmitAll(probe, <<Event("unpacking", 10)>>) IN
     probe' = CASE probe.container = "zip" -> [begun EXCEPT !.pc = "unpack"]
                [] probe.container = "largeZip" ->
                     [EmitAll(begun, UnpackingBatch(probe, 0)) EXCEPT !.pc = "yield", !.i = 0]
                [] probe.container = "asar" ->
                     [EmitAll(begun, <<Event("unpacking", 25)>>) EXCEPT !.pc = "unpack"]
                [] probe.container = "installer" ->
                     [EmitAll(begun, <<Event("unpacking", 15)>>) EXCEPT !.pc = "unpack"]
  /\ UNCHANGED <<cacheVars, engineVars>>

\* the timer between two batches of a large zip has fired
ProgressYieldDone ==
  /\ probe.stage = "progress" /\ probe.pc = "yield"
  /\ LET i == probe.i + batchSize IN
     probe' = IF i < probe.entries
              THEN [EmitAll(probe, UnpackingBatch(probe, i)) EXCEPT !.i = i]
              ELSE UnpackReturned([probe EXCEPT !.i = 0])
  /\ UNCHANGED <<cacheVars, engineVars>>

\* the extractor of a small zip, an asar or an installer has settled
ProgressUnpackDone ==
  /\ probe.stage = "progress" /\ probe.pc = "unpack"
  /\ \E ok \in BOOLEAN :
       probe' = IF ~ok THEN ProgressThrow(probe)
                ELSE IF probe.container = "asar"
                THEN UnpackReturned(EmitAll(probe, <<Event("unpacking", 40)>>))
                ELSE UnpackReturned(probe)
  /\ UNCHANGED <<cacheVars, engineVars>>

\* the scan of parsePackage has resolved; reorganizeResources scans again,
\* detects the framework and creates the output directories
ProgressScanDone ==
  /\ probe.stage = "progress" /\ probe.pc = "scan"
  /\ probe' = [probe EXCEPT !.pc = "reorganize"]
  /\ UNCHANGED <<cacheVars, engineVars>>

\* the index in fileTypes of the first category after k that has files, or 0
NextCategory(load, k) ==
  LET later == {j \in DOMAIN fileTypes : j > k /\ LoadCount(load, fileTypes[j]) > 0} IN
  IF later = {} THEN 0 ELSE CHOOSE j \in later : \A h \in later : j <= h

\* the loop over fileTypes reaches category k and awaits its first batch, or
\* (k = 0) is over: the entry file is announced and generateEntryFile awaited
CategoryStart(pr, k) ==
  IF k = 0 THEN [EmitAll(pr, <<Event("reorganizing", 80)>>) EXCEPT !.pc = "entry"]
  ELSE [EmitAll(pr, <<Event("reorganizing",
                            ReorganizeProgress(pr.processedFiles, TotalFiles(pr.load)))>>)
          EXCEPT !.pc = "batch", !.category = k, !.i = 0]

ProgressReorganizeBegin ==
  /\ probe.stage = "progress" /\ probe.pc = "reorganize"
  /\ probe' = CategoryStart(probe, NextCategory(probe.load, 0))
  /\ UNCHANGED <<cacheVars, engineVars>>

\* parallelProcess has resolved for one batch of the category
ProgressBatchDone ==
  /\ probe.stage = "progress" /\ probe.pc = "batch"
  /\ LET size == IF IsCodeCategory(fileTypes[probe.category]) THEN CodeBatchSize
                 ELSE AssetBatchSize
         length == LoadCount(probe.load, fileTypes[probe.category])
         batch == IF length - probe.i < size THEN length - probe.i ELSE size
         processedFiles == probe.processedFiles + batch
         counted == [EmitAll(probe, <<Event("reorganizing",
                                            ReorganizeProgress(processedFiles,
                                                               TotalFiles(probe.load)))>>)
                       EXCEPT !.processedFiles = processedFiles, !.i = @ + size]
     IN probe' = IF counted.i < length THEN counted
                 ELSE CategoryStart(counted, NextCategory(probe.load, probe.category))
  /\ UNCHANGED <<cacheVars, engineVars>>

\* generateEntryFile has settled: reorganizeResources returns, and the packer
\* starts: _generateFolder awaits fs.exists, _generateZip announces the archive
\* and awaits _addDirectoryToZip
ProgressEntryDone ==
  /\ probe.stage = "progress" /\ probe.pc = "entry"
  /\ LET done == EmitAll(probe, <<Event("reorganizing", 85)>>) IN
     probe' = IF probe.format = "folder" THEN [done EXCEPT !.pc = "folder"]
              ELSE [EmitAll(done, <<Event("packing", 82)>>) EXCEPT !.pc = "archive"]
  /\ UNCHANGED <<cacheVars, engineVars>>

\* _generateFolder: the destination is out of the way, fs.copy is awaited
ProgressFolderReady ==
  /\ probe.stage = "progress" /\ probe.pc = "folder"
  /\ probe' = [EmitAll(probe, <<Event("packing", 85)>>) EXCEPT !.pc = "copy"]
  /\ UNCHANGED <<cacheVars, engineVars>>

\* _generateFolder: fs.copy has settled; parsePackage announces the validation
ProgressCopyDone ==
  /\ probe.stage = "progress" /\ probe.pc = "copy"
  /\ \E ok \in BOOLEAN :
       probe' = IF ok THEN [EmitAll(probe, <<Event("packing", 90), Event("validating", 95)>>)
                              EXCEPT !.pc = "validate"]
                ELSE ProgressThrow(probe)
  /\ UNCHANGED <<cacheVars, engineVars>>

\* _generateZip: the entries are added and the directory ensured; writeZip is
\* synchronous; parsePackage announces the validation
ProgressArchiveDone ==
  /\ probe.stage = "progress" /\ probe.pc = "archive"
  /\ \E ok \in BOOLEAN :
       probe' = IF ok THEN [EmitAll(probe, <<Event("packing", 88), Event("packing", 90),
                                             Event("validating", 95)>>)
                              EXCEPT !.pc = "validate"]
                ELSE ProgressThrow(EmitAll(probe, <<Event("packing", 88)>>))
  /\ UNCHANGED <<cacheVars, engineVars>>

\* validateFrontendPackage has resolved
ProgressValidateDone ==
  /\ probe.stage = "progress" /\ probe.pc = "validate"
  /\ \E success \in BOOLEAN :
       probe' = IF ValidationFailed([success |-> success]) THEN ProgressThrow(probe)
                ELSE [probe EXCEPT !.pc = "info"]
  /\ UNCHANGED <<cacheVars, engineVars>>

\* getPackageInfo has resolved
ProgressInfoDone ==
  /\ probe.stage = "progress" /\ probe.pc = "info"
  /\ probe' = [EmitAll(probe, <<Event("completed", 100)>>) EXCEPT !.pc = "done"]
  /\ UNCHANGED <<cacheVars, engineVars>>

NextProgress ==
  \/ ProgressUnpackCall
  \/ ProgressYieldDone
  \/ ProgressUnpackDone
  \/ ProgressScanDone
  \/ ProgressReorganizeBegin
  \/ ProgressBatchDone
  \/ ProgressEntryDone
  \/ ProgressFolderReady
  \/ ProgressCopyDone
  \/ ProgressArchiveDone
  \/ ProgressValidateDone
  \/ ProgressInfoDone

SpecProgress == InitProgress /\ [][NextProgress]_vars

\* ------------------------------------------------ claims: progress values
StageSteps == {"unpacking", "scanning", "reorganizing", "packing", "validating", "completed"}
\* the stage events of the run so far, in order
StageEvents == SelectSeq(probe.events, LAMBDA ev : ev.step \in StageSteps)
NeverDecreases(evs) == \A j \in 2..Len(evs) : evs[j - 1].progress <= evs[j].progress

\* C34: over one run the progress of the stage events never decreases from one
\* event to the next, for both output formats and every container format.
C34_ProgressNeverDecreases ==
  probe.stage = "progress" => NeverDecreases(StageEvents)

\* the same for the folder format alone
FolderProgressNeverDecreases ==
  (probe.stage = "progress" /\ probe.format = "folder") => NeverDecreases(StageEvents)

\* ------------------------------------------------- claims: terminal events
\* how many events of invocation r carry the step
CountEvents(r, step) == Cardinality({i \in DOMAIN events[r] : events[r][i].step = step})

\* C35: a settled run has emitted exactly one terminal event: a resolved run
\* 'completed' once, as its last event, and no 'error'; a rejected run, denied
\* admission included, 'error' once and no 'completed'.
C35_ExactlyOneTerminalEvent ==
  \A r \in Runs :
    /\ rs[r].outcome = "resolved" =>
         /\ CountEvents(r, "completed") = 1
         /\ events[r][Len(events[r])].step = "completed"
         /\ CountEvents(r, "error") = 0
    /\ rs[r].outcome = "rejected" =>
         /\ CountEvents(r, "error") = 1
         /\ CountEvents(r, "completed") = 0

\* the same, a run the admission check denied apart
OneTerminalEventUnlessDenied ==
  \A r \in Runs :
    /\ rs[r].outcome = "resolved" =>
         /\ CountEvents(r, "completed") = 1
         /\ events[r][Len(events[r])].step = "completed"
         /\ CountEvents(r, "error") = 0
    /\ (rs[r].outcome = "rejected" /\ rs[r].err # "resources") =>
         /\ CountEvents(r, "error") = 1
         /\ CountEvents(r, "completed") = 0

\* ------------------------------------------ parallelProcess: states and steps
\* the largest number of items and the largest concurrency of one call
MaxItems == 4
MaxPoolConcurrency == 3

\* items are numbered in the order of the array; queue is what is left of the
\* copy, activeWorkers the items whose worker is pending, results what the
\* workers pushed; calls counts the processor calls per item
InitPool ==
  /\ probe \in {[stage |-> "pool", pc |-> "called", items |-> n, concurrency |-> c,
                 queue |-> [k \in 1..n |-> k], activeWorkers |-> {}, results |-> <<>>,
                 calls |-> [k \in 1..n |-> 0], settled |-> <<>>, woken |-> FALSE] :
                  n \in 0..MaxItems, c \in 1..MaxPoolConcurrency}
  /\ fileCache = <<>>
  /\ now = ClockStart
  /\ op = NoOp
  /\ EngineIdle

\* a test that lets one worker too many in
poolHasRoomForOneMore(pr) ==
  Cardinality(pr.activeWorkers) <= pr.concurrency /\ Len(pr.queue) > 0
\* line 76: activeWorkers.length < concurrency && queue.length > 0
poolHasRoom(pr) ==
  Cardinality(pr.activeWorkers) < pr.concurrency /\ Len(pr.queue) > 0

\* lines 77-85, as often as the test of line 76 holds: queue.shift(), the
\* processor is called and its worker pushed
RECURSIVE poolFill(_)
poolFill(pr) ==
  IF poolHasRoom(pr)
  THEN poolFill([pr EXCEPT !.queue = Tail(@),
                           !.activeWorkers = @ \cup {Head(pr.queue)},
                           !.calls[Head(pr.queue)] = @ + 1])
  ELSE pr

\* the while loop from its test to the next await of Promise.race, or to the
\* return of results
poolLoop(pr) ==
  LET filled == poolFill(pr) IN
  IF Len(filled.queue) > 0 \/ filled.activeWorkers # {}
  THEN [filled EXCEPT !.pc = "race", !.woken = FALSE]
  ELSE [filled EXCEPT !.pc = "returned", !.woken = FALSE]

\* parallelProcess is called and runs to its first await
PoolCall ==
  /\ probe.stage = "pool" /\ probe.pc = "called"
  /\ probe' = poolLoop(probe)
  /\ UNCHANGED <<cacheVars, engineVars>>

\* the processor of a pending worker resolves: the then callback pushes the
\* result and splices the worker out, which settles one promise of the race
PoolWorkerDone ==
  /\ probe.stage = "pool" /\ probe.pc = "race"
  /\ \E item \in probe.activeWorkers :
       probe' = [probe EXCEPT !.results = Append(@, item),
                              !.settled = Append(@, item),
                              !.activeWorkers = @ \ {item},
                              !.woken = TRUE]
  /\ UNCHANGED <<cacheVars, engineVars>>

\* the await of Promise.race returns and the loop goes on
PoolResume ==
  /\ probe.stage = "pool" /\ probe.pc = "race" /\ probe.woken
  /\ probe' = poolLoop(probe)
  /\ UNCHANGED <<cacheVars, engineVars>>

NextPool ==
  \/ PoolCall
  \/ PoolWorkerDone
  \/ PoolResume

SpecPool == InitPool /\ [][NextPool]_vars
\* every processor settles and every continuation is run
SpecPoolFair == SpecPool /\ WF_vars(PoolCall) /\ WF_vars(PoolWorkerDone) /\ WF_vars(PoolResume)

\* ------------------------------------------------ claims: parallelProcess
\* C36: parallelProcess with a concurrency of at least 1 and processors that
\* all resolve terminates, calls the processor once per item, never has more
\* than concurrency calls in flight, and returns one result per item, in the
\* order of completion.
C36_PoolTerminatesOncePerItemWithinLimit ==
  /\ [](probe.stage = "pool" =>
          /\ Cardinality(probe.activeWorkers) <= probe.concurrency
          /\ \A k \in 1..probe.items : probe.calls[k] <= 1
          /\ probe.pc = "returned" =>
               /\ \A k \in 1..probe.items : probe.calls[k] = 1
               /\ Len(probe.results) = probe.items
               /\ \A k \in 1..probe.items :
                    Cardinality({j \in DOMAIN probe.results : probe.results[j] = k}) = 1
               /\ probe.results = probe.settled)
  /\ <>(probe.stage = "pool" /\ probe.pc = "returned")

\* a call with more items than its concurrency has returned, the results not
\* in the order of the items
C36_Witness ==
  /\ probe.stage = "pool" /\ probe.pc = "returned"
  /\ probe.items > probe.concurrency
  /\ probe.concurrency > 1
  /\ probe.results[1] # 1

\* ------------------------------------------- claims: one timer, one callback
\* the step just taken is a call of startMonitoring
StartCalled == probe'.calls = probe.calls + 1 /\ probe'.last = "start"

\* the monitor has at most one interval timer, its flag is true exactly while
\* that timer is scheduled, a start while monitoring changes nothing and a
\* start after a stop schedules a new timer with its own callback
OneTimerAndFlag ==
  /\ [](probe.stage = "monitor" =>
          /\ Cardinality(timers) <= 1
          /\ resourceMonitor.monitoring <=> timers # {}
          /\ resourceMonitor.monitoring => timers = {resourceMonitor.monitoringInterval})
  /\ [][(StartCalled /\ resourceMonitor.monitoring)
          => UNCHANGED <<resourceMonitor, timers>>]_vars
  /\ [][(StartCalled /\ ~resourceMonitor.monitoring)
          => /\ resourceMonitor'.monitoring
             /\ timers' = {resourceMonitor'.monitoringInterval}
             /\ Sampling(resourceMonitor'.monitoringInterval) = 0]_vars

\* C37: the monitor has at most one interval timer and its flag is true exactly
\* while that timer is scheduled; a start while monitoring is a no-op, so that
\* from a start that took effect until the next stop the only callback invoked
\* is the one that start registered; a start after a stop registers the new
\* callback.
C37_OneTimerOneCallback ==
  /\ OneTimerAndFlag
  /\ [][\A id \in DOMAIN probe.sampling :
          (CallbackInvoked(id) /\ resourceMonitor.monitoring)
            => id = resourceMonitor.monitoringInterval]_vars

\* ------------------------------------------------ claims: the .deb payload
\* C38: unpacking a .deb on Linux or macOS either extracts the payload of its
\* data archive and returns, or rejects: it does not return when no data.tar.*
\* member was found or when the member's compression is not one it extracts.
C38_DebReturnsOnlyWithPayload ==
  (probe.stage = "installer" /\ probe.ext = ExtDeb /\ probe.outcome = "resolved")
    => (probe.payload /\ probe.dataTar \in {"gz", "xz"})

\* what holds instead: a .deb call that returns has extracted the payload
\* unless there was no data member or one that is neither .gz nor .xz
DebReturnsWithPayloadIfGzOrXz ==
  (probe.stage = "installer" /\ probe.ext = ExtDeb /\ probe.outcome = "resolved")
    => (probe.payload <=> probe.dataTar \in {"gz", "xz"})

\* ------------------------------------------- the sampling: states and steps
\* what fs.statfs settles with: a failure, or the block counts of a volume of
\* 10 blocks of which 0, 1 or 2 are available
StatfsOutcomes ==
  {[ok |-> FALSE, bsize |-> 0, blocks |-> 0, bavail |-> 0]}
    \cup {[ok |-> TRUE, bsize |-> 1, blocks |-> 10, bavail |-> b] : b \in 0..2}

\* getDiskUsage: the sample computed from the statistics fs.statfs returned
diskSample(stats) ==
  LET total == stats.bsize * stats.blocks
      free == stats.bsize * stats.bavail
      used == total - free
  IN [total |-> total, free |-> free, used |-> used,
      usage |-> (200 * used + total) \div (2 * total)]

\* getDiskUsage that reports a full disk when the statistics cannot be read
getDiskUsageFullOnFailure(stats) ==
  IF ~stats.ok THEN [total |-> 0, free |-> 0, used |-> 0, usage |-> 100]
  ELSE diskSample(stats)

\* getDiskUsage: the catch block answers a failure with zeroes
getDiskUsage(stats) ==
  IF ~stats.ok THEN [total |-> 0, free |-> 0, used |-> 0, usage |-> 0]
  ELSE diskSample(stats)

\* getResourceUsage is called by checkSystemResources(fileSize) or by a tick of
\* the monitoring interval, with the memory and CPU figures the os module gives
InitSample ==
  /\ probe \in {[stage |-> "sample", pc |-> "called", caller |-> c, fileSize |-> sz,
                 memory |-> [free |-> f, usage |-> u.memory], cpu |-> [usage |-> u.cpu],
                 statfs |-> "pending", resourceUsage |-> <<>>, result |-> <<>>,
                 alerts |-> <<>>, callbacks |-> 0] :
                  c \in {"check", "tick"}, sz \in FileSizes, f \in FreeMemory,
                  u \in [memory : {resourceThresholds.memory, resourceThresholds.memory + 1},
                         cpu : {resourceThresholds.cpu, resourceThresholds.cpu + 1}]}
  /\ fileCache = <<>>
  /\ now = ClockStart
  /\ op = NoOp
  /\ EngineIdle

\* getResourceUsage up to the await of fs.statfs inside getDiskUsage
SampleCall ==
  /\ probe.stage = "sample" /\ probe.pc = "called"
  /\ probe' = [probe EXCEPT !.pc = "statfs"]
  /\ UNCHANGED <<cacheVars, engineVars>>

\* fs.statfs has settled: getDiskUsage and getResourceUsage return; then
\* checkSystemResources decides, or the tick checks the thresholds and invokes
\* the callback
SampleStatfsDone ==
  /\ probe.stage = "sample" /\ probe.pc = "statfs"
  /\ \E stats \in StatfsOutcomes :
       LET resourceUsage == [memory |-> probe.memory, cpu |-> probe.cpu,
                             disk |-> getDiskUsage(stats)]
           sampled == [probe EXCEPT !.pc = "done",
                                    !.statfs = IF stats.ok THEN "ok" ELSE "failed",
                                    !.resourceUsage = resourceUsage]
       IN probe' = IF probe.caller = "check"
                   THEN [sampled EXCEPT
                           !.result = checkSystemResources(probe.fileSize, resourceUsage)]
                   ELSE [sampled EXCEPT !.alerts = checkResourceThresholds(resourceUsage),
                                        !.callbacks = @ + 1]
  /\ UNCHANGED <<cacheVars, engineVars>>

NextSample ==
  \/ SampleCall
  \/ SampleStatfsDone

SpecSample == InitSample /\ [][NextSample]_vars

\* --------------------------------------------------- claims: failed sampling
\* C39: when the filesystem statistics behind the disk sample cannot be read,
\* the sampling neither fails nor stalls: the step in which fs.statfs fails
\* completes getResourceUsage with a disk sample of zeroes; checkSystemResources
\* then resolves with a decision taken from free memory alone and no disk
\* alert, and a monitoring tick invokes its callback.
C39_FailedSamplingDegradesToZeroes ==
  [][(probe.stage = "sample" /\ probe.pc = "statfs" /\ probe'.statfs = "failed") =>
       /\ probe'.pc = "done"
       /\ probe'.resourceUsage.disk = [total |-> 0, free |-> 0, used |-> 0, usage |-> 0]
       /\ probe'.resourceUsage.memory = probe.memory
       /\ probe.caller = "check" =>
            /\ probe'.result.hasEnoughResources <=> probe.memory.free > 2 * probe.fileSize
            /\ \A i \in DOMAIN probe'.result.alerts : probe'.result.alerts[i] # "disk"
       /\ probe.caller = "tick" =>
            /\ probe'.callbacks = 1
            /\ \A i \in DOMAIN probe'.alerts : probe'.alerts[i] # "disk"]_vars

\* a file was admitted, under a memory and a CPU alert, on a sample whose disk
\* statistics could not be read
C39_Witness ==
  /\ probe.stage = "sample" /\ probe.pc = "done" /\ probe.statfs = "failed"
  /\ probe.caller = "check"
  /\ probe.result.hasEnoughResources /\ probe.fileSize > 0
  /\ probe.result.alerts = <<"memory", "cpu">>

====
